---- MODULE Spec2Model ----
(***************************************************************************)
(* Dependency lifecycle tracking of the RepoGate VS Code extension.        *)
(*                                                                         *)
(* Spec          GradleWatcher (src/src/watchers/gradleWatcher.ts): change *)
(*               events, submission, status polling, removal.              *)
(* LifecycleSpec GradleWatcher with one manifest: unparseable content,     *)
(*               deletion of the manifest, dispose.                        *)
(* TokenSpec     GradleWatcher with one manifest: the token is cleared and *)
(*               set while it runs.                                        *)
(* ValidatorSpec DependencyValidator (src/src/services/                    *)
(*               DependencyValidator.ts): submission, connection retry,    *)
(*               status polling; timers fire and calls end (weak fairness).*)
(* BootstrapSpec activate, scanNow and BootstrapService (src/unnamed/      *)
(*               part_003, DependencyValidator.ts) and                     *)
(*               DependencyMonitor.performInitialScan (src/src/services/   *)
(*               DiagnosticsManager.ts): the one-time inventory submission.*)
(* StartupSpec   GradleWatcher started on a manifest that has content.     *)
(* MonitorSpec   DependencyMonitor: initial scan and manual scan.          *)
(* QueueSpec     BootstrapService.bootstrapQueue on every small workspace. *)
(* GatewaySpec   RepoGateApiClient.retryRequest (src/unnamed/part_000):    *)
(*               one call, invocation by invocation.                       *)
(* PollSpec      GradleWatcher with one manifest and a backend that        *)
(*               decides; timers fire and calls end (fairness).            *)
(* HeartbeatSpec HeartbeatService (src/src/services/heartbeatService.ts):  *)
(*               start, stop, the timer, denied-package alerts.            *)
(* ParserSpec    NpmDependencyParser and MavenDependencyParser: one diff   *)
(*               of a well-formed manifest and the removal loop.           *)
(* ProviderSpec  DiagnosticsProvider (src/src/ui/diagnostics/              *)
(*               diagnosticsProvider.ts): any sequence of its calls.       *)
(*                                                                         *)
(* Every `await` of the source that waits for the file system, the backend *)
(* or the secret store is a suspension point: the handler stops there and  *)
(* any other handler, timer callback or response may run before it goes    *)
(* on.  The synchronous code between two suspension points is one step.    *)
(***************************************************************************)
EXTENDS Integers, Sequences, FiniteSets, TLC

----------------------------------------------------------------------------
(* Bounds of the model *)

\* change events delivered by the file system watcher in one run
MaxEvents == 3
\* check calls of one poll timer that may be awaiting their response at once
MaxInFlight == 2
\* the notification counters stop counting here ("this many or more")
MaxCount == 2
\* validateDependency calls in one run
MaxSubmits == 2
\* activations of the extension (restarts of the host) in one run
MaxActivations == 3
\* scanNow commands in one run
MaxScans == 2
\* deletions of one manifest in one run
MaxDeletes == 1
\* change events of the polling specification
MaxPollEvents == 2
\* start() calls of the heartbeat service
MaxStarts == 2
\* sendHeartbeat calls that are suspended at the same time
MaxBeats == 2
\* <dependency> blocks of a pom.xml
MaxBlocks == 3
\* calls of the DiagnosticsProvider
MaxDiagOps == 4

----------------------------------------------------------------------------
(* Values *)

Manifests == {"m1", "m2"}
Names == {"a"}
\* the order in which a parser lists the dependencies of a manifest
NameOrder == <<"a">>

NonTerminal == {"pending", "scanning", "not_found"}
Terminal == {"approved", "denied"}
\* CheckResponse.status
ResponseStatus == Terminal \cup NonTerminal
\* the statuses the backend answers with in the model
Answers == {"pending", "scanning", "approved", "denied"}

\* A DependencyInfo object is created by the parser for one change event and
\* one name: <<event, name>> is its identity.  The poll timer that
\* startPolling creates for it is identified by the same pair.
Objs == (1..MaxEvents) \X Names
\* a manifest content is the set of names it declares, or text that does not
\* parse; Absent is the manifest that is not on disk
Malformed == {"<malformed>"}
Absent == {"<absent>"}
Contents == (SUBSET Names) \cup {Malformed}
NoObj == <<0, "-">>
NoDiag == "-"
Keys == Manifests \X Names

VARIABLES
    disk,                 \* the content of each manifest on disk (its names)
    nEvents,              \* change events delivered so far
    handlers,             \* the handleFileChange call of each event
    fileCache,            \* GradleWatcher.fileCache
    statusCache,          \* GradleWatcher.statusCache (Map order kept)
    objStatus,            \* DependencyInfo.status of each object
    pollingIntervals,     \* GradleWatcher.pollingIntervals
    liveTimers,           \* timers set and not cleared
    starting,             \* startPolling calls awaiting getConfig
    inflight,             \* check calls awaiting their response, per timer
    pendingNotifications, \* GradleWatcher.pendingNotifications
    diag,                 \* DiagnosticsProvider entries
    removedKeys,          \* history: keys whose removal has been processed
    ntShown,              \* history: non-terminal notifications per object
    tShown,               \* history: approval/denial notifications per object
    hasToken,             \* the secret store holds an API token
    disposed,             \* GradleWatcher.dispose has run
    mapGen,               \* which Map object statusCache holds for a manifest
    deletedKeys,          \* history: keys tracked when their manifest was deleted
    updates,              \* history: update calls sent for each object
    confirmParity,        \* history: showRemovalConfirmed calls, modulo 2
    bootContent           \* history: the manifests' content when the watcher started

wvars == <<disk, nEvents, handlers, fileCache, statusCache, objStatus,
           pollingIntervals, liveTimers, starting, inflight,
           pendingNotifications, diag, removedKeys, ntShown, tShown,
           hasToken, disposed, mapGen, deletedKeys, updates, confirmParity,
           bootContent>>

\* DependencyValidator (src/src/services/DependencyValidator.ts), one entry per
\* key `${packageName}:${packageManager}`
VARIABLES
    vTimer,        \* pollingIntervals: "none", or the mode of the timer
    retryCount,    \* retryCount of the retry timer created last
    vStatus,       \* dependency.status
    isConnected,   \* DependencyValidator.isConnected
    vAwait,        \* calls awaiting their response: submit, retry, check
    nSubmits,      \* validateDependency calls so far
    retryRequests, \* history: request calls sent by the retry timer
    lastFailure,   \* history: how the last initial request failed, or "none"
    retryHandled,  \* history: responses the retry timer created last handled
    warnings       \* history: "Could not connect" warnings of that timer

vvars == <<vTimer, retryCount, vStatus, isConnected, vAwait, nSubmits,
           retryRequests, lastFailure, retryHandled, warnings>>

\* activate / BootstrapService (src/unnamed/part_003,
\* src/src/services/DependencyValidator.ts lines 369-573)
VARIABLES
    completed,     \* workspaceState[BOOTSTRAP_KEY]: the ids marked completed
    session,       \* the extension host: "off", or how activate has ended
    workspace,     \* getWorkspaceId() of the session
    actRun,        \* the bootstrapQueue call of activate
    scanRun,       \* the bootstrapQueue call of scanNow
    nActivations,  \* activations so far
    nScans,        \* scanNow commands so far
    okSinceReset,  \* history: a bootstrapQueue run of the workspace returned
                   \* true and resetBootstrap has not been called since
    entryOk,       \* history: okSinceReset when activate reached bootstrap
    entryCalls,    \* history: queue calls sent by this activation
    entries,       \* history: bootstrap entries since the last reset
    watchers,      \* startWatchers has run in this session
    actOutcome,    \* history: how the bootstrap check of this activation ended
    actSignals,    \* history: error messages shown by this activation
    \* DependencyMonitor.performInitialScan (src/src/services/DiagnosticsManager.ts)
    scanCompleted, \* globalState['repogate.initialScanCompleted']
    monitor,       \* position of performInitialScan: "off" with no monitor
    nMonitors,     \* monitors constructed so far
    scanOk,        \* history: a performInitialScan has run to its end
    monitorOk,     \* history: scanOk when the monitor was constructed
    monitorCalls,  \* history: queuePackages requests sent by this monitor
    monitorFailed, \* history: the request of queuePackages has thrown
    manualRun,     \* position of DependencyMonitor.manualScan
    nManual,       \* manualScan commands so far
    manualOk       \* history: the request of the last manualScan resolved

bvars == <<completed, session, workspace, actRun, scanRun, nActivations,
           nScans, okSinceReset, entryOk, entryCalls, entries, watchers,
           actOutcome, actSignals,
           scanCompleted, monitor, nMonitors, scanOk, monitorOk, monitorCalls,
           monitorFailed, manualRun, nManual, manualOk>>

\* the part of bvars that performInitialScan leaves alone
svars == <<completed, session, workspace, actRun, scanRun, nActivations,
           nScans, okSinceReset, entryOk, entryCalls, entries, watchers,
           actOutcome, actSignals>>

\* the part of bvars that activate and scanNow leave alone
mvars == <<scanCompleted, monitor, nMonitors, scanOk, monitorOk, monitorCalls,
           monitorFailed, manualRun, nManual, manualOk>>

\* one run of BootstrapService.bootstrapQueue over the files of a workspace
\* (src/src/services/DependencyValidator.ts lines 431-520)
VARIABLES
    qFiles,        \* the dependency files of the workspace and what they declare
    qPc,           \* position of the run
    qTodo,         \* files still to read, in the order findDependencyFiles lists
    qGroups,       \* ecosystemPackages, in insertion order
    qPending,      \* entries of ecosystemPackages the queue loop has not reached
    qCalls,        \* history: the payloads passed to client.queue
    qResult        \* what bootstrapQueue returned

qvars == <<qFiles, qPc, qTodo, qGroups, qPending, qCalls, qResult>>

\* one call of the api client (src/unnamed/part_000 lines 53-178)
VARIABLES
    rOp,           \* the method called: queue, request, check or update
    rPc,           \* position of retryRequest
    rAttempt,      \* the parameter attempt of the running retryRequest
    rHistory,      \* history: how each invocation of fn has ended
    rResult        \* <<what the call returned or threw>>, <<>> before

rvars == <<rOp, rPc, rAttempt, rHistory, rResult>>

\* the backend of the polling specification
VARIABLES
    decided        \* the backend has decided: it answers approved or denied

evars == <<decided>>

\* HeartbeatService (src/src/services/heartbeatService.ts)
VARIABLES
    isRunning,        \* HeartbeatService.isRunning
    interval,         \* HeartbeatService.interval: a timer, or NoTimer
    hTimers,          \* the interval timers that are live
    beats,            \* the sendHeartbeat calls that are suspended
    notifiedPackages, \* HeartbeatService.notifiedPackages
    nStarts,          \* start() calls so far
    surfaced,         \* history: per name, the alerts shown that list it
    lastAlert         \* history: the last alert received, what was shown

hvars == <<isRunning, interval, hTimers, beats, notifiedPackages, nStarts,
           surfaced, lastAlert>>

\* one diff of a manifest by NpmDependencyParser or MavenDependencyParser and
\* by the handleFileChange that calls it
VARIABLES
    pKind,         \* the parser: "npm" or "maven"
    npmPrev,       \* previousContent of package.json
    npmCur,        \* content of package.json
    mvnPrev,       \* previousContent of pom.xml
    mvnCur,        \* content of pom.xml
    pTracked,      \* the names of the status map of the manifest
    pPc,           \* position of handleFileChange
    newDeps,       \* what parseNewDependencies returned
    pRemoved       \* the names handleFileChange treats as removed

pvars == <<pKind, npmPrev, npmCur, mvnPrev, mvnCur, pTracked, pPc, newDeps,
           pRemoved>>

\* DiagnosticsProvider (src/src/ui/diagnostics/diagnosticsProvider.ts)
VARIABLES
    fileDiagnostics,      \* DiagnosticsProvider.fileDiagnostics
    diagnosticCollection, \* what the vscode.DiagnosticCollection holds
    nDiagOps,             \* calls of the provider so far
    lastAdded,            \* history: the diagnostic addDiagnostic got last
    dOp                   \* history: the last call of the provider

dvars == <<fileDiagnostics, diagnosticCollection, nDiagOps, lastAdded, dOp>>

\* the variables added for single services
gvars == <<hvars, pvars, dvars>>

\* the variables of the specifications of one function or one environment
fvars == <<qvars, rvars, evars, gvars>>

vars == <<wvars, vvars, bvars, fvars>>

----------------------------------------------------------------------------
(* Helpers *)

Min(x, y) == IF x < y THEN x ELSE y

IdleHandler == [pc |-> "idle", uri |-> "m1", content |-> {}, todo |-> <<>>,
                cur |-> NoObj, gen |-> 0]

ObjName(o) == o[2]
ObjUri(o) == handlers[o[1]].uri
ObjKey(o) == <<ObjUri(o), ObjName(o)>>

SeqRange(s) == {s[i] : i \in 1..Len(s)}

\* DependencyParser.parseAllDependencies: the names a content declares; text
\* that does not parse declares none
parseAllDependencies(content) ==
    IF content \in {Malformed, Absent} THEN {} ELSE content

\* DependencyParser.parseNewDependencies: names of current absent from previous
parseNewDependencies(current, previous) ==
    SelectSeq(NameOrder, LAMBDA n : /\ n \in parseAllDependencies(current)
                                    /\ n \notin parseAllDependencies(previous))

\* Map.set(name, obj): an existing key keeps its place, a new one is appended
MapSet(map, o) ==
    IF \E i \in 1..Len(map) : ObjName(map[i]) = ObjName(o)
    THEN [i \in 1..Len(map) |->
            IF ObjName(map[i]) = ObjName(o) THEN o ELSE map[i]]
    ELSE Append(map, o)

\* Map.delete(name)
MapDelete(map, n) == SelectSeq(map, LAMBDA o : ObjName(o) # n)

\* the object a status map holds for a name, NoObj when there is none
MapGet(map, n) ==
    IF \E i \in 1..Len(map) : ObjName(map[i]) = n
    THEN map[CHOOSE i \in 1..Len(map) : ObjName(map[i]) = n]
    ELSE NoObj

\* the object tracked for a key, NoObj when there is none
Tracked(m, n) == MapGet(statusCache[m], n)

----------------------------------------------------------------------------
(* GradleWatcher: the synchronous code between suspension points, as        *)
(* functions of the watcher's state st (a record of its fields).            *)

St == [handlers |-> handlers, fileCache |-> fileCache,
       statusCache |-> statusCache, objStatus |-> objStatus,
       pollingIntervals |-> pollingIntervals, liveTimers |-> liveTimers,
       starting |-> starting, pendingNotifications |-> pendingNotifications,
       diag |-> diag, removedKeys |-> removedKeys, ntShown |-> ntShown,
       tShown |-> tShown, deletedKeys |-> deletedKeys, updates |-> updates,
       confirmParity |-> confirmParity,
       hasToken |-> hasToken, mapGen |-> mapGen]

\* stopPolling: clear and unregister the timer of the key, forget the name
stopPolling(st, o) ==
    LET t == st.pollingIntervals[ObjKey(o)] IN
    [st EXCEPT !.liveTimers = @ \ {t},
               !.pollingIntervals[ObjKey(o)] = NoObj,
               !.pendingNotifications = @ \ {ObjName(o)}]

\* startPolling up to its await of getConfig: clear the registered timer
startPolling(st, o) ==
    LET t == st.pollingIntervals[ObjKey(o)] IN
    [st EXCEPT !.liveTimers = @ \ {t},
               !.starting = @ \cup {o}]

\* startPolling after getConfig: setInterval and register the timer
startPollingResume(st, o) ==
    [st EXCEPT !.liveTimers = @ \cup {o},
               !.pollingIntervals[ObjKey(o)] = o,
               !.starting = @ \ {o}]

\* the notification switch of handleDependencyResponse: is one shown?
Shows(st, o, s) ==
    \/ s \in Terminal
    \/ s \in NonTerminal /\ ObjName(o) \notin st.pendingNotifications

\* handleDependencyResponse: upsert the diagnostic, notify
handleDependencyResponse(st, o, s) ==
    [st EXCEPT !.diag[ObjKey(o)] = s,
               !.pendingNotifications =
                   IF s \in NonTerminal THEN @ \cup {ObjName(o)} ELSE @]

\* history of the notifications of o: counted per run of equal statuses
Count(st, o, s) ==
    LET same == st.objStatus[o] = s
        one == IF Shows(st, o, s) THEN 1 ELSE 0
    IN [st EXCEPT
          !.ntShown[o] = IF s \in NonTerminal
                         THEN Min((IF same THEN @ ELSE 0) + one, MaxCount)
                         ELSE 0,
          !.tShown[o] = IF s \in Terminal
                        THEN Min((IF same THEN @ ELSE 0) + one, MaxCount)
                        ELSE 0]

\* dep.status = response.status; await handleDependencyResponse(...)
Respond(st, o, s) ==
    handleDependencyResponse(
        [Count(st, o, s) EXCEPT !.objStatus[o] = s], o, s)

\* handleNewDependency after the response of request
RequestDone(st, o, s) ==
    IF s \in Terminal THEN Respond(st, o, s)
    ELSE startPolling(Respond(st, o, s), o)

\* checkDependencyStatus after the response of check
CheckDone(st, o, s) ==
    IF s \in Terminal THEN stopPolling(Respond(st, o, s), o)
    ELSE Respond(st, o, s)

\* the entries of the status map that the current content lacks
Gone(st, e) ==
    SelectSeq(st.statusCache[st.handlers[e].uri],
              LAMBDA o : ObjName(o) \notin
                         parseAllDependencies(st.handlers[e].content))

\* handleRemovedDependency up to its await of update
handleRemovedDependency(st, e, o) ==
    LET s1 == stopPolling(st, o) IN
    [s1 EXCEPT !.diag[ObjKey(o)] = NoDiag,
               !.updates[o] = Min(@ + 1, MaxCount),
               !.handlers[e].pc = "update",
               !.handlers[e].cur = o]

\* handleFileChange, "Update cache": fileCache.set ends the handler
UpdateCache(st, e) ==
    [st EXCEPT !.fileCache[st.handlers[e].uri] = st.handlers[e].content,
               !.handlers[e] = [IdleHandler EXCEPT
                                   !.pc = "done",
                                   !.uri = st.handlers[e].uri]]

\* statusMap.delete(depName) after handleRemovedDependency has returned
DeleteEntry(st, e, o) ==
    LET m == st.handlers[e].uri IN
    [st EXCEPT !.statusCache[m] = MapDelete(@, ObjName(o)),
               !.removedKeys = @ \cup {<<m, ObjName(o)>>}]

\* handleFileChange, the loop over the status map: the next removal, or the
\* cache update.  Without a token handleRemovedDependency returns at once and
\* the entry is deleted in the same step.
RECURSIVE RemovalLoop(_, _)
RemovalLoop(st, e) ==
    IF Gone(st, e) = <<>> THEN UpdateCache(st, e)
    ELSE IF st.hasToken
         THEN handleRemovedDependency(st, e, Head(Gone(st, e)))
         ELSE RemovalLoop(DeleteEntry(st, e, Head(Gone(st, e))), e)

\* handleNewDependency up to its await of request: track the object
handleNewDependency(st, e, n) ==
    LET m == st.handlers[e].uri IN
    [st EXCEPT !.statusCache[m] = MapSet(@, <<e, n>>),
               !.removedKeys = @ \ {<<m, n>>},
               !.deletedKeys = @ \ {<<m, n>>},
               !.handlers[e].pc = "request",
               !.handlers[e].cur = <<e, n>>,
               !.handlers[e].todo = Tail(@)]

\* handleFileChange: the loop over newDependencies (without a token
\* handleNewDependency returns before it tracks anything), then
\* statusCache.get(uri.fsPath) and the loop over that map
RECURSIVE Continue(_, _)
Continue(st, e) ==
    IF st.handlers[e].todo # <<>>
    THEN IF st.hasToken
         THEN handleNewDependency(st, e, Head(st.handlers[e].todo))
         ELSE Continue([st EXCEPT !.handlers[e].todo = Tail(@)], e)
    ELSE RemovalLoop(
             [st EXCEPT !.handlers[e].gen = st.mapGen[st.handlers[e].uri]], e)

\* handleFileChange after handleRemovedDependency has returned:
\* statusMap.delete, next entry.  The loop iterates the Map object it got
\* before the first removal: after handleFileDelete that Map is no longer the
\* one in statusCache, and it holds no other entry.
AfterUpdate(st, e) ==
    LET o == st.handlers[e].cur
        m == st.handlers[e].uri IN
    IF st.handlers[e].gen = st.mapGen[m]
    THEN RemovalLoop(DeleteEntry(st, e, o), e)
    ELSE UpdateCache(
             [st EXCEPT !.removedKeys =
                 IF MapGet(st.statusCache[m], ObjName(o)) = NoObj
                 THEN @ \cup {<<m, ObjName(o)>>} ELSE @], e)

\* handleRemovedDependency after update has resolved: the confirmation
showRemovalConfirmed(st, o) ==
    IF st.objStatus[o] = "denied"
    THEN [st EXCEPT !.confirmParity = 1 - @]
    ELSE st

\* An object that no status map holds and no handler is working on is never
\* read again (the closures that still hold it only write its status): its
\* status and history are dropped from the state.
InUse(st, o) ==
    \/ \E m \in Manifests : o \in SeqRange(st.statusCache[m])
    \/ \E e \in 1..MaxEvents : /\ st.handlers[e].pc \in {"request", "update"}
                                /\ st.handlers[e].cur = o

Forget(st) ==
    [st EXCEPT
       !.objStatus = [o \in Objs |-> IF InUse(st, o) THEN @[o] ELSE "pending"],
       !.ntShown = [o \in Objs |-> IF InUse(st, o) THEN @[o] ELSE 0],
       !.tShown = [o \in Objs |-> IF InUse(st, o) THEN @[o] ELSE 0],
       !.updates = [o \in Objs |-> IF InUse(st, o) THEN @[o] ELSE 0]]

Assign(raw) ==
    LET st == Forget(raw) IN
    /\ handlers' = st.handlers
    /\ fileCache' = st.fileCache
    /\ statusCache' = st.statusCache
    /\ objStatus' = st.objStatus
    /\ pollingIntervals' = st.pollingIntervals
    /\ liveTimers' = st.liveTimers
    /\ starting' = st.starting
    /\ pendingNotifications' = st.pendingNotifications
    /\ diag' = st.diag
    /\ removedKeys' = st.removedKeys
    /\ ntShown' = st.ntShown
    /\ tShown' = st.tShown
    /\ deletedKeys' = st.deletedKeys
    /\ updates' = st.updates
    /\ confirmParity' = st.confirmParity

----------------------------------------------------------------------------
(* GradleWatcher: the steps *)

RECURSIVE Sum(_, _)
Sum(f, S) == IF S = {} THEN 0
             ELSE LET x == CHOOSE y \in S : TRUE IN f[x] + Sum(f, S \ {x})

InFlightTotal == Sum(inflight, Objs)

\* new GradleWatcher in a workspace whose manifests hold content: the
\* constructor leaves every cache empty
WatcherStart(content) ==
    /\ disk = content
    /\ bootContent = content
    /\ nEvents = 0
    /\ handlers = [e \in 1..MaxEvents |-> IdleHandler]
    /\ fileCache = [m \in Manifests |-> {}]
    /\ statusCache = [m \in Manifests |-> <<>>]
    /\ objStatus = [o \in Objs |-> "pending"]
    /\ pollingIntervals = [k \in Keys |-> NoObj]
    /\ liveTimers = {}
    /\ starting = {}
    /\ inflight = [o \in Objs |-> 0]
    /\ pendingNotifications = {}
    /\ diag = [k \in Keys |-> NoDiag]
    /\ removedKeys = {}
    /\ ntShown = [o \in Objs |-> 0]
    /\ tShown = [o \in Objs |-> 0]
    /\ hasToken = TRUE
    /\ disposed = FALSE
    /\ mapGen = [m \in Manifests |-> 0]
    /\ deletedKeys = {}
    /\ updates = [o \in Objs |-> 0]
    /\ confirmParity = 0

\* a workspace whose manifests declare nothing when the watcher starts
WatcherInit == WatcherStart([m \in Manifests |-> {}])

\* the user saves manifest m with content c: onDidChange / onDidCreate
ChangeEvent(m, c) ==
    /\ ~disposed
    /\ nEvents < MaxEvents
    /\ disk' = [disk EXCEPT ![m] = c]
    /\ nEvents' = nEvents + 1
    /\ handlers' = [handlers EXCEPT ![nEvents + 1] =
                       [IdleHandler EXCEPT !.pc = "read", !.uri = m]]
    /\ UNCHANGED <<fileCache, statusCache, objStatus, pollingIntervals,
                   liveTimers, starting, inflight, pendingNotifications,
                   diag, removedKeys, ntShown, tShown, hasToken, disposed,
                   mapGen, deletedKeys, updates, confirmParity, bootContent>>

\* readFile resolves: diff against the cached content, start submitting;
\* readFile of a manifest that is gone throws, which is logged
ReadFile(e) ==
    /\ handlers[e].pc = "read"
    /\ LET m == handlers[e].uri
           st == [St EXCEPT
                    !.handlers[e].content = disk[m],
                    !.handlers[e].todo =
                        parseNewDependencies(disk[m], fileCache[m])]
       IN IF disk[m] = Absent
          THEN Assign([St EXCEPT !.handlers[e].pc = "done"])
          ELSE Assign(Continue(st, e))
    /\ UNCHANGED <<disk, nEvents, inflight, hasToken, disposed, mapGen,
                   bootContent>>

\* client.request resolves with status s
RequestResponse(e, s) ==
    /\ handlers[e].pc = "request"
    /\ Assign(Continue(RequestDone(St, handlers[e].cur, s), e))
    /\ UNCHANGED <<disk, nEvents, inflight, hasToken, disposed, mapGen,
                   bootContent>>

\* client.request throws: logged, showError, the loop goes on
RequestFail(e) ==
    /\ handlers[e].pc = "request"
    /\ Assign(Continue(St, e))
    /\ UNCHANGED <<disk, nEvents, inflight, hasToken, disposed, mapGen,
                   bootContent>>

\* getConfig resolves inside startPolling
StartPollingSet(o) ==
    /\ o \in starting
    /\ Assign(startPollingResume(St, o))
    /\ UNCHANGED <<disk, nEvents, inflight, hasToken, disposed, mapGen,
                   bootContent>>

\* a poll timer fires: checkDependencyStatus sends check (without a token it
\* returns before)
Tick(o) ==
    /\ o \in liveTimers
    /\ hasToken
    /\ InFlightTotal < MaxInFlight
    /\ inflight' = [inflight EXCEPT ![o] = @ + 1]
    /\ UNCHANGED <<disk, nEvents, handlers, fileCache, statusCache,
                   objStatus, pollingIntervals, liveTimers, starting,
                   pendingNotifications, diag, removedKeys, ntShown, tShown,
                   hasToken, disposed, mapGen, deletedKeys, updates,
                   confirmParity, bootContent>>

\* client.check resolves with status s
CheckResponse(o, s) ==
    /\ inflight[o] > 0
    /\ inflight' = [inflight EXCEPT ![o] = @ - 1]
    /\ Assign(CheckDone(St, o, s))
    /\ UNCHANGED <<disk, nEvents, hasToken, disposed, mapGen, bootContent>>

\* client.check throws: logged
CheckFail(o) ==
    /\ inflight[o] > 0
    /\ inflight' = [inflight EXCEPT ![o] = @ - 1]
    /\ UNCHANGED <<disk, nEvents, handlers, fileCache, statusCache,
                   objStatus, pollingIntervals, liveTimers, starting,
                   pendingNotifications, diag, removedKeys, ntShown, tShown,
                   hasToken, disposed, mapGen, deletedKeys, updates,
                   confirmParity, bootContent>>

\* client.update resolves: the confirmation for a denied dependency, then the
\* entry is deleted
UpdateDone(e) ==
    /\ handlers[e].pc = "update"
    /\ Assign(AfterUpdate(showRemovalConfirmed(St, handlers[e].cur), e))
    /\ UNCHANGED <<disk, nEvents, inflight, hasToken, disposed, mapGen,
                   bootContent>>

\* client.update throws: logged, then the entry is deleted
UpdateFail(e) ==
    /\ handlers[e].pc = "update"
    /\ Assign(AfterUpdate(St, e))
    /\ UNCHANGED <<disk, nEvents, inflight, hasToken, disposed, mapGen,
                   bootContent>>

\* the user deletes manifest m: handleFileDelete drops the cached content,
\* the status map and the diagnostics of the file
FileDelete(m) ==
    /\ ~disposed
    /\ disk[m] # Absent
    /\ mapGen[m] < MaxDeletes
    /\ disk' = [disk EXCEPT ![m] = Absent]
    /\ mapGen' = [mapGen EXCEPT ![m] = @ + 1]
    /\ Assign([St EXCEPT
          !.fileCache[m] = {},
          !.statusCache[m] = <<>>,
          !.diag = [k \in Keys |-> IF k[1] = m THEN NoDiag ELSE @[k]],
          !.deletedKeys = @ \cup {<<m, ObjName(o)>> :
                                     o \in SeqRange(statusCache[m])}])
    /\ UNCHANGED <<nEvents, inflight, hasToken, disposed, bootContent>>

\* the repogate.clearToken command, confirmed
ClearToken ==
    /\ hasToken
    /\ hasToken' = FALSE
    /\ UNCHANGED <<disk, nEvents, handlers, fileCache, statusCache,
                   objStatus, pollingIntervals, liveTimers, starting, inflight,
                   pendingNotifications, diag, removedKeys, ntShown, tShown,
                   disposed, mapGen, deletedKeys, updates, confirmParity,
                   bootContent>>

\* the repogate.setToken command
SetToken ==
    /\ ~hasToken
    /\ hasToken' = TRUE
    /\ UNCHANGED <<disk, nEvents, handlers, fileCache, statusCache,
                   objStatus, pollingIntervals, liveTimers, starting, inflight,
                   pendingNotifications, diag, removedKeys, ntShown, tShown,
                   disposed, mapGen, deletedKeys, updates, confirmParity,
                   bootContent>>

\* GradleWatcher.dispose: the file watcher is disposed, every registered
\* timer is cleared and the registry emptied
Dispose ==
    /\ ~disposed
    /\ disposed' = TRUE
    /\ liveTimers' = liveTimers \ {pollingIntervals[k] : k \in Keys}
    /\ pollingIntervals' = [k \in Keys |-> NoObj]
    /\ UNCHANGED <<disk, nEvents, handlers, fileCache, statusCache,
                   objStatus, starting, inflight, pendingNotifications, diag,
                   removedKeys, ntShown, tShown, hasToken, mapGen,
                   deletedKeys, updates, confirmParity, bootContent>>

----------------------------------------------------------------------------
(* DependencyValidator *)

VKeys == Names

\* retryConnection: const maxRetries = 30
maxRetries == 30

ValidatorInit ==
    /\ vTimer = [k \in VKeys |-> "none"]
    /\ retryCount = [k \in VKeys |-> 0]
    /\ vStatus = [k \in VKeys |-> "pending"]
    /\ isConnected = FALSE
    /\ vAwait = [k \in VKeys |-> [submit |-> 0, retry |-> 0, check |-> 0]]
    /\ nSubmits = 0
    /\ retryRequests = [k \in VKeys |-> 0]
    /\ lastFailure = [k \in VKeys |-> "none"]
    /\ retryHandled = [k \in VKeys |-> 0]
    /\ warnings = [k \in VKeys |-> 0]

Vs == [vTimer |-> vTimer, retryCount |-> retryCount, vStatus |-> vStatus,
       isConnected |-> isConnected, retryRequests |-> retryRequests,
       lastFailure |-> lastFailure, retryHandled |-> retryHandled,
       warnings |-> warnings]

VAssign(v) ==
    /\ vTimer' = v.vTimer
    /\ retryCount' = v.retryCount
    /\ vStatus' = v.vStatus
    /\ isConnected' = v.isConnected
    /\ retryRequests' = v.retryRequests
    /\ lastFailure' = v.lastFailure
    /\ retryHandled' = v.retryHandled
    /\ warnings' = v.warnings

\* DependencyValidator.stopPolling: clearInterval and delete the entry
vStopPolling(v, k) == [v EXCEPT !.vTimer[k] = "none"]

\* DependencyValidator.startPolling: clear the existing timer, set a poll timer
vStartPolling(v, k) == [v EXCEPT !.vTimer[k] = "poll"]

\* retryConnection: clear the existing timer, set a retry timer, retryCount = 0
retryConnection(v, k) ==
    [v EXCEPT !.vTimer[k] = "retry",
              !.retryCount[k] = 0,
              !.retryRequests[k] = 0,
              !.retryHandled[k] = 0,
              !.warnings[k] = 0]

\* a faulty test that gives up one tick late: C10 must fail with it
retryExhausted_late(count) == count > maxRetries + 1

\* the test of the retry callback: if (retryCount > maxRetries)
retryExhausted(count) == count > maxRetries

\* DependencyValidator.handleDependencyResponse
vHandleDependencyResponse(v, k, s) ==
    IF s \in Terminal
    THEN [v EXCEPT !.vStatus[k] = s]
    ELSE vStartPolling([v EXCEPT !.vStatus[k] = s], k)

\* "Connection successful!"
Connected(v) == [v EXCEPT !.isConnected = TRUE]

\* validateDependency up to its await of requestDependency
Validate(k) ==
    /\ nSubmits < MaxSubmits
    /\ nSubmits' = nSubmits + 1
    /\ vAwait' = [vAwait EXCEPT ![k].submit = @ + 1]
    /\ UNCHANGED <<vTimer, retryCount, vStatus, isConnected, retryRequests,
                   lastFailure, retryHandled, warnings>>

\* requestDependency resolves with status s
ValidateResponse(k, s) ==
    /\ vAwait[k].submit > 0
    /\ vAwait' = [vAwait EXCEPT ![k].submit = @ - 1]
    /\ VAssign(vHandleDependencyResponse(
                  Connected([Vs EXCEPT !.lastFailure[k] = "none"]), k, s))
    /\ UNCHANGED nSubmits

\* how requestDependency fails: the connection is refused, no response
\* within the timeout, a 5xx response, a 4xx response
FailureKinds == {"refused", "timeout", "5xx", "4xx"}

\* errorMessage.includes('ECONNREFUSED') || includes('Failed to fetch') ||
\* includes('Network'); the message is "Failed to request dependency
\* validation: " and the error of axios: "connect ECONNREFUSED ...",
\* "timeout of 30000ms exceeded", "Request failed with status code ..."
namesConnection(kind) == kind = "refused"

\* requestDependency throws
ValidateFail(k, kind) ==
    /\ vAwait[k].submit > 0
    /\ vAwait' = [vAwait EXCEPT ![k].submit = @ - 1]
    /\ LET v == [Vs EXCEPT !.isConnected = FALSE, !.lastFailure[k] = kind] IN
       IF namesConnection(kind)
       THEN VAssign(retryConnection([v EXCEPT !.vStatus[k] = "pending"], k))
       ELSE VAssign([v EXCEPT !.vStatus[k] = "error"])
    /\ UNCHANGED nSubmits

\* the retry timer fires: count, give up or send request
RetryTick(k) ==
    /\ vTimer[k] = "retry"
    /\ LET v == [Vs EXCEPT !.retryCount[k] = @ + 1] IN
       IF retryExhausted(v.retryCount[k])
       THEN /\ VAssign(vStopPolling([v EXCEPT !.warnings[k] = @ + 1], k))
            /\ UNCHANGED vAwait
       ELSE /\ vAwait[k].retry < MaxInFlight
            /\ VAssign([v EXCEPT !.retryRequests[k] = @ + 1])
            /\ vAwait' = [vAwait EXCEPT ![k].retry = @ + 1]
    /\ UNCHANGED nSubmits

\* the request of a retry resolves with status s
RetryResponse(k, s) ==
    /\ vAwait[k].retry > 0
    /\ vAwait' = [vAwait EXCEPT ![k].retry = @ - 1]
    /\ VAssign(vHandleDependencyResponse(
                  vStopPolling(Connected(
                      [Vs EXCEPT !.retryHandled[k] = @ + 1]), k), k, s))
    /\ UNCHANGED nSubmits

\* the request of a retry throws: "will retry on next interval"
RetryFail(k) ==
    /\ vAwait[k].retry > 0
    /\ vAwait' = [vAwait EXCEPT ![k].retry = @ - 1]
    /\ UNCHANGED <<vTimer, retryCount, vStatus, isConnected, nSubmits,
                   retryRequests, lastFailure, retryHandled, warnings>>

\* the poll timer fires: send check
PollTick(k) ==
    /\ vTimer[k] = "poll"
    /\ vAwait[k].check < MaxInFlight
    /\ vAwait' = [vAwait EXCEPT ![k].check = @ + 1]
    /\ UNCHANGED <<vTimer, retryCount, vStatus, isConnected, nSubmits,
                   retryRequests, lastFailure, retryHandled, warnings>>

\* checkDependency resolves with status s
PollResponse(k, s) ==
    /\ vAwait[k].check > 0
    /\ vAwait' = [vAwait EXCEPT ![k].check = @ - 1]
    /\ IF s \in Terminal
       THEN VAssign(vStopPolling([Vs EXCEPT !.vStatus[k] = s], k))
       ELSE VAssign([Vs EXCEPT !.vStatus[k] = s])
    /\ UNCHANGED nSubmits

\* checkDependency throws
PollFail(k) ==
    /\ vAwait[k].check > 0
    /\ vAwait' = [vAwait EXCEPT ![k].check = @ - 1]
    /\ UNCHANGED <<vTimer, retryCount, vStatus, isConnected, nSubmits,
                   retryRequests, lastFailure, retryHandled, warnings>>

----------------------------------------------------------------------------
(* activate, BootstrapService, scanNow *)

Workspaces == {"w1", "w2"}
\* getEcosystem, in the order findDependencyFiles lists the patterns
Ecosystems == <<"npm", "maven", "gradle">>

NoRun == [pc |-> "idle", todo |-> <<>>]

BootstrapInit ==
    /\ completed = <<>>
    /\ session = "off"
    /\ workspace = "w1"
    /\ actRun = NoRun
    /\ scanRun = NoRun
    /\ nActivations = 0
    /\ nScans = 0
    /\ okSinceReset = [w \in Workspaces |-> FALSE]
    /\ entryOk = FALSE
    /\ entryCalls = 0
    /\ entries = [w \in Workspaces |-> 0]
    /\ watchers = FALSE
    /\ actOutcome = "none"
    /\ actSignals = 0
    /\ scanCompleted = FALSE
    /\ monitor = "off"
    /\ nMonitors = 0
    /\ scanOk = FALSE
    /\ monitorOk = FALSE
    /\ monitorCalls = 0
    /\ monitorFailed = FALSE
    /\ manualRun = "idle"
    /\ nManual = 0
    /\ manualOk = FALSE

\* isBootstrapCompleted: completed.includes(workspaceId)
isBootstrapCompleted(list, w) == w \in SeqRange(list)

\* a faulty markBootstrapCompleted that stores nothing: C9 must fail with it
markBootstrapCompleted_unsaved(list, w) == list

\* markBootstrapCompleted: push the id unless the list includes it
markBootstrapCompleted(list, w) ==
    IF w \in SeqRange(list) THEN list ELSE Append(list, w)

\* a faulty resetBootstrap that drops every marker: C36 must fail with it
resetBootstrap_all(list, w) == <<>>

\* resetBootstrap: splice the id out of the list
resetBootstrap(list, w) == SelectSeq(list, LAMBDA x : x # w)

\* the ecosystems of a workspace that have packages, in Map order: one queue
\* call each
QueueCalls(ecos) == SelectSeq(Ecosystems, LAMBDA x : x \in ecos)

\* bootstrapQueue is called: it awaits the repository check and the file search
StartRun == [pc |-> "files", todo |-> <<>>]

\* bootstrapQueue from the file search to its first queue call; a workspace
\* with no dependency file, or with no package in any, is marked at once
FilesRead(ecos) ==
    IF QueueCalls(ecos) = <<>> THEN [pc |-> "ok", todo |-> <<>>]
    ELSE [pc |-> "queue", todo |-> QueueCalls(ecos)]

\* the queue call of a run resolved: the next call, or the end of the loop
AfterQueue(run) ==
    IF Len(run.todo) > 1 THEN [pc |-> "queue", todo |-> Tail(run.todo)]
    ELSE [pc |-> "ok", todo |-> <<>>]

\* vscode.window.showErrorMessage: one more error message on screen
showErrorMessage(n) == Min(n + 1, MaxCount)

\* a faulty activate that goes on to startWatchers whatever bootstrapQueue
\* returned: C20 must fail with it
startsWatchers_always(success) == TRUE

\* activate after the bootstrap check: "if (!success) return" comes before
\* startWatchers
startsWatchers(success) == success

\* activate: disabled or without a token it returns before the bootstrap
ActivatePassive ==
    /\ session = "off"
    /\ nActivations < MaxActivations
    /\ nActivations' = nActivations + 1
    /\ session' = "passive"
    /\ \E w \in Workspaces : workspace' = w
    /\ UNCHANGED <<completed, actRun, scanRun, nScans, okSinceReset,
                   entryOk, entryCalls, entries, watchers, actOutcome,
                   actSignals>>

\* activate reaches "Check if bootstrap is needed" in workspace w
Activate(w) ==
    /\ session = "off"
    /\ nActivations < MaxActivations
    /\ nActivations' = nActivations + 1
    /\ workspace' = w
    /\ entryOk' = okSinceReset[w]
    /\ entries' = [entries EXCEPT ![w] = Min(@ + 1, MaxCount)]
    /\ IF isBootstrapCompleted(completed, w)
       THEN /\ session' = "watching"
            /\ actRun' = NoRun
            /\ entryCalls' = 0
            /\ watchers' = TRUE
            /\ actOutcome' = "marked"
       ELSE /\ session' = "bootstrap"
            /\ actRun' = StartRun
            /\ entryCalls' = 0
            /\ watchers' = FALSE
            /\ actOutcome' = "none"
    /\ UNCHANGED <<completed, scanRun, nScans, okSinceReset, actSignals>>

\* activate's run has read the dependency files: the ecosystems ecos have
\* packages
ActFiles(ecos) ==
    /\ actRun.pc = "files"
    /\ actRun' = FilesRead(ecos)
    /\ entryCalls' = IF QueueCalls(ecos) = <<>> THEN 0 ELSE 1
    /\ UNCHANGED <<completed, session, workspace, scanRun, nActivations,
                   nScans, okSinceReset, entryOk, entries,
                   watchers, actOutcome, actSignals>>

\* client.queue of activate's run resolves
ActQueueOk ==
    /\ actRun.pc = "queue"
    /\ actRun' = AfterQueue(actRun)
    /\ entryCalls' = IF Len(actRun.todo) > 1 THEN Min(entryCalls + 1, MaxCount)
                     ELSE entryCalls
    /\ UNCHANGED <<completed, session, workspace, scanRun, nActivations,
                   nScans, okSinceReset, entryOk, entries,
                   watchers, actOutcome, actSignals>>

\* client.queue of activate's run throws: the catch of bootstrapQueue shows
\* an error message and returns false; activate sets the status bar, shows
\* an error message through notifications.showError and returns
ActQueueFail ==
    /\ actRun.pc = "queue"
    /\ actRun' = NoRun
    /\ actOutcome' = "failed"
    /\ actSignals' = showErrorMessage(showErrorMessage(actSignals))
    /\ watchers' = startsWatchers(FALSE)
    /\ session' = IF startsWatchers(FALSE) THEN "watching" ELSE "failed"
    /\ UNCHANGED <<completed, workspace, scanRun, nActivations, nScans,
                   okSinceReset, entryOk, entryCalls, entries>>

\* activate's run ends: markBootstrapCompleted, return true, startWatchers
ActRunOk ==
    /\ actRun.pc = "ok"
    /\ actRun' = NoRun
    /\ completed' = markBootstrapCompleted(completed, workspace)
    /\ okSinceReset' = [okSinceReset EXCEPT ![workspace] = TRUE]
    /\ actOutcome' = "succeeded"
    /\ watchers' = startsWatchers(TRUE)
    /\ session' = IF startsWatchers(TRUE) THEN "watching" ELSE "failed"
    /\ UNCHANGED <<workspace, scanRun, nActivations, nScans, entryOk,
                   entryCalls, entries, actSignals>>

\* the repogate.scanNow command with a token: resetBootstrap, bootstrapQueue
ScanNow ==
    /\ session # "off"
    /\ scanRun.pc = "idle"
    /\ nScans < MaxScans
    /\ nScans' = nScans + 1
    /\ completed' = resetBootstrap(completed, workspace)
    /\ okSinceReset' = [okSinceReset EXCEPT ![workspace] = FALSE]
    /\ entries' = [entries EXCEPT ![workspace] = 0]
    /\ scanRun' = StartRun
    /\ UNCHANGED <<session, workspace, actRun, nActivations, entryOk,
                   entryCalls,
                   watchers, actOutcome, actSignals>>

\* scanNow's run has read the dependency files
ScanFiles(ecos) ==
    /\ scanRun.pc = "files"
    /\ scanRun' = FilesRead(ecos)
    /\ UNCHANGED <<completed, session, workspace, actRun, nActivations,
                   nScans, okSinceReset, entryOk, entryCalls, entries,
                   watchers, actOutcome, actSignals>>

\* client.queue of scanNow's run resolves
ScanQueueOk ==
    /\ scanRun.pc = "queue"
    /\ scanRun' = AfterQueue(scanRun)
    /\ UNCHANGED <<completed, session, workspace, actRun, nActivations,
                   nScans, okSinceReset, entryOk, entryCalls, entries,
                   watchers, actOutcome, actSignals>>

\* client.queue of scanNow's run throws: bootstrapQueue returns false
ScanQueueFail ==
    /\ scanRun.pc = "queue"
    /\ scanRun' = NoRun
    /\ UNCHANGED <<completed, session, workspace, actRun, nActivations,
                   nScans, okSinceReset, entryOk, entryCalls, entries,
                   watchers, actOutcome, actSignals>>

\* scanNow's run ends: markBootstrapCompleted, return true
ScanRunOk ==
    /\ scanRun.pc = "ok"
    /\ scanRun' = NoRun
    /\ completed' = markBootstrapCompleted(completed, workspace)
    /\ okSinceReset' = [okSinceReset EXCEPT ![workspace] = TRUE]
    /\ UNCHANGED <<session, workspace, actRun, nActivations, nScans,
                   entryOk, entryCalls, entries,
                   watchers, actOutcome, actSignals>>

\* the window is closed: deactivate disposes the watchers, the host ends and
\* every call in flight with it; the workspace state stays on disk
Deactivate ==
    /\ session # "off"
    /\ session' = "off"
    /\ actRun' = NoRun
    /\ scanRun' = NoRun
    /\ watchers' = FALSE
    /\ actOutcome' = "none"
    /\ actSignals' = 0
    /\ UNCHANGED <<completed, workspace, nActivations, nScans, okSinceReset,
                   entryOk, entryCalls, entries>>

\* new DependencyMonitor: the constructor calls performInitialScan, which
\* returns at once when the global state says the scan was completed
MonitorStart ==
    /\ monitor = "off"
    /\ nMonitors < MaxActivations
    /\ nMonitors' = nMonitors + 1
    /\ monitorOk' = scanOk
    /\ monitorCalls' = 0
    /\ monitor' = IF scanCompleted THEN "on" ELSE "files"
    /\ monitorFailed' = FALSE
    /\ UNCHANGED <<scanCompleted, scanOk, manualRun, nManual, manualOk>>

\* globalState.update('repogate.initialScanCompleted', true)
markInitialScan(flag) == TRUE

\* performInitialScan has read the files: with packages and a configured
\* token queuePackages sends one request, otherwise the scan is marked
MonitorFiles(packages, configured) ==
    /\ monitor = "files"
    /\ IF packages /\ configured
       THEN /\ monitor' = "queue"
            /\ monitorCalls' = 1
            /\ UNCHANGED <<scanCompleted, scanOk>>
       ELSE /\ monitor' = "on"
            /\ scanCompleted' = markInitialScan(scanCompleted)
            /\ scanOk' = TRUE
            /\ UNCHANGED monitorCalls
    /\ UNCHANGED <<nMonitors, monitorOk, monitorFailed, manualRun, nManual,
                   manualOk>>

\* the request of queuePackages resolves: performInitialScan goes on to mark
\* the scan completed
MonitorQueueDone ==
    /\ monitor = "queue"
    /\ monitor' = "on"
    /\ scanCompleted' = markInitialScan(scanCompleted)
    /\ scanOk' = TRUE
    /\ UNCHANGED <<nMonitors, monitorOk, monitorCalls, monitorFailed,
                   manualRun, nManual, manualOk>>

\* the request of queuePackages throws: the error is caught and logged in
\* queuePackages, and performInitialScan goes on to mark the scan completed
MonitorQueueFail ==
    /\ monitor = "queue"
    /\ monitor' = "on"
    /\ monitorFailed' = TRUE
    /\ scanCompleted' = markInitialScan(scanCompleted)
    /\ scanOk' = TRUE
    /\ UNCHANGED <<nMonitors, monitorOk, monitorCalls, manualRun, nManual,
                   manualOk>>

\* the host ends with the monitor and every call in flight; the global
\* state stays on disk
MonitorStop ==
    /\ monitor # "off"
    /\ monitor' = "off"
    /\ manualRun' = "idle"
    /\ UNCHANGED <<scanCompleted, nMonitors, scanOk, monitorOk, monitorCalls,
                   monitorFailed, nManual, manualOk>>

\* DependencyMonitor.manualScan with a token and a workspace folder: it
\* searches and reads the files whatever the global state says
ManualScan ==
    /\ monitor # "off"
    /\ manualRun = "idle"
    /\ nManual < MaxScans
    /\ nManual' = nManual + 1
    /\ manualRun' = "files"
    /\ manualOk' = FALSE
    /\ UNCHANGED <<scanCompleted, monitor, nMonitors, scanOk, monitorOk,
                   monitorCalls, monitorFailed>>

\* manualScan has read the files: with packages queuePackages sends one
\* request, otherwise "No packages found"
ManualFiles(packages) ==
    /\ manualRun = "files"
    /\ manualRun' = IF packages THEN "queue" ELSE "idle"
    /\ UNCHANGED <<scanCompleted, monitor, nMonitors, scanOk, monitorOk,
                   monitorCalls, monitorFailed, nManual, manualOk>>

\* the request of manualScan's queuePackages resolves: manualScan shows its
\* message and returns
ManualQueueOk ==
    /\ manualRun = "queue"
    /\ manualRun' = "idle"
    /\ manualOk' = TRUE
    /\ UNCHANGED <<scanCompleted, monitor, nMonitors, scanOk, monitorOk,
                   monitorCalls, monitorFailed, nManual>>

\* the request of manualScan's queuePackages throws: caught and logged
ManualQueueFail ==
    /\ manualRun = "queue"
    /\ manualRun' = "idle"
    /\ UNCHANGED <<scanCompleted, monitor, nMonitors, scanOk, monitorOk,
                   monitorCalls, monitorFailed, nManual, manualOk>>

----------------------------------------------------------------------------
(* BootstrapService.bootstrapQueue: files, groups, queue calls *)

\* the file names findDependencyFiles searches for, in its order
FileNames == <<"package.json", "pom.xml", "build.gradle", "build.gradle.kts">>

\* the names a dependency file of the workspace may declare
DepNames == {"a", "b"}

\* a file for which findParser finds no parser, or whose readFile or
\* parseAllDependencies throws: the loop goes on to the next file
Unreadable == {"<unreadable>"}

\* a faulty getEcosystem that knows build.gradle by its exact name only: C23
\* must fail with it
getEcosystem_exact(fileName) ==
    CASE fileName = "package.json" -> "npm"
      [] fileName = "pom.xml" -> "maven"
      [] fileName = "build.gradle" -> "gradle"
      [] OTHER -> "unknown"

\* getEcosystem
getEcosystem(fileName) ==
    CASE fileName = "package.json" -> "npm"
      [] fileName = "pom.xml" -> "maven"
      [] fileName \in {"build.gradle", "build.gradle.kts"} -> "gradle"
      [] OTHER -> "unknown"

\* the workspace: each file name is absent, unreadable or declares names
QueueInit ==
    /\ qFiles \in [SeqRange(FileNames) -> (SUBSET DepNames) \cup {Absent, Unreadable}]
    /\ qPc = "find"
    /\ qTodo = <<>>
    /\ qGroups = <<>>
    /\ qPending = <<>>
    /\ qCalls = <<>>
    /\ qResult = "none"

\* packages.push({name, version, path}) for each dependency of a file
packagesOf(fileName, deps) == {<<d, fileName>> : d \in deps}

\* ecosystemPackages after the dependencies of one file have been pushed
pushPackages(groups, fileName, deps) ==
    LET eco == getEcosystem(fileName)
        has == \E i \in 1..Len(groups) : groups[i].ecosystem = eco
        g1 == IF has THEN groups
              ELSE Append(groups, [ecosystem |-> eco, packages |-> {}])
    IN [i \in 1..Len(g1) |->
          IF g1[i].ecosystem = eco
          THEN [g1[i] EXCEPT !.packages = @ \cup packagesOf(fileName, deps)]
          ELSE g1[i]]

\* the queue loop: entries without packages are skipped
RECURSIVE skipEmpty(_)
skipEmpty(groups) ==
    IF groups = <<>> THEN <<>>
    ELSE IF Head(groups).packages = {} THEN skipEmpty(Tail(groups))
    ELSE groups

\* the queue loop reaches its next client.queue, or its end
QueueLoop(groups) ==
    IF skipEmpty(groups) = <<>>
    THEN /\ qPc' = "done"
         /\ qResult' = "true"
         /\ qPending' = <<>>
         /\ UNCHANGED qCalls
    ELSE /\ qPc' = "queue"
         /\ qPending' = Tail(skipEmpty(groups))
         /\ qCalls' = Append(qCalls, Head(skipEmpty(groups)))
         /\ UNCHANGED qResult

\* findDependencyFiles resolves: without files the run ends at once
QFind ==
    /\ qPc = "find"
    /\ qTodo' = SelectSeq(FileNames, LAMBDA f : qFiles[f] # Absent)
    /\ IF qTodo' = <<>>
       THEN qPc' = "done" /\ qResult' = "true"
       ELSE qPc' = "read" /\ UNCHANGED qResult
    /\ UNCHANGED <<qFiles, qGroups, qPending, qCalls>>

\* the next file is read and parsed, or skipped; after the last file the
\* queue loop starts
QRead ==
    /\ qPc = "read"
    /\ LET f == Head(qTodo)
           groups == IF qFiles[f] = Unreadable THEN qGroups
                     ELSE pushPackages(qGroups, f, qFiles[f])
       IN /\ qGroups' = groups
          /\ qTodo' = Tail(qTodo)
          /\ IF Tail(qTodo) = <<>>
             THEN QueueLoop(groups)
             ELSE UNCHANGED <<qPc, qPending, qCalls, qResult>>
    /\ UNCHANGED qFiles

\* client.queue resolves: the loop goes on
QQueueOk ==
    /\ qPc = "queue"
    /\ QueueLoop(qPending)
    /\ UNCHANGED <<qFiles, qTodo, qGroups>>

\* client.queue throws: the catch returns false
QQueueFail ==
    /\ qPc = "queue"
    /\ qPc' = "done"
    /\ qResult' = "false"
    /\ UNCHANGED <<qFiles, qTodo, qGroups, qPending, qCalls>>

----------------------------------------------------------------------------
(* RepoGateApiClient.retryRequest *)

\* private maxRetries = 3
clientMaxRetries == 3

Operations == {"queue", "request", "check", "update"}

\* how an invocation of fn fails: the status of the response, or 0 for an
\* error without a response (timeout, connection refused)
NoResponse == 0
Failures == {NoResponse, 400, 404, 500, 503}

\* the status of a response that resolves fn
Ok == 200

\* a faulty test that takes only 400 for a client error: C24 must fail with it
isClientError_400(status) == status = 400

\* axiosError.response && status >= 400 && status < 500
isClientError(status) == status # NoResponse /\ status >= 400 /\ status < 500

\* a faulty bound that allows one retry too many: C25 must fail with it
mayRetry_late(attempt) == attempt <= clientMaxRetries

\* attempt < this.maxRetries
mayRetry(attempt) == attempt < clientMaxRetries

GatewayInit ==
    /\ rOp = "none"
    /\ rPc = "idle"
    /\ rAttempt = 0
    /\ rHistory = <<>>
    /\ rResult = <<>>

\* queue, request, check or update is called: retryRequest(fn) invokes fn
GCall(op) ==
    /\ rPc = "idle"
    /\ rOp' = op
    /\ rPc' = "call"
    /\ UNCHANGED <<rAttempt, rHistory, rResult>>

\* fn resolves: retryRequest returns its value
GInvokeOk ==
    /\ rPc = "call"
    /\ rHistory' = Append(rHistory, Ok)
    /\ rPc' = "returned"
    /\ rResult' = <<Ok>>
    /\ UNCHANGED <<rOp, rAttempt>>

\* fn throws: a client error is thrown on, another error is retried after a
\* sleep while attempt allows, and thrown on otherwise
GInvokeFail(status) ==
    /\ rPc = "call"
    /\ rHistory' = Append(rHistory, status)
    /\ IF isClientError(status) \/ ~mayRetry(rAttempt)
       THEN rPc' = "thrown" /\ rResult' = <<status>>
       ELSE rPc' = "sleep" /\ UNCHANGED rResult
    /\ UNCHANGED <<rOp, rAttempt>>

\* the sleep ends: retryRequest(fn, attempt + 1) invokes fn
GSleepEnd ==
    /\ rPc = "sleep"
    /\ rPc' = "call"
    /\ rAttempt' = rAttempt + 1
    /\ UNCHANGED <<rOp, rHistory, rResult>>

----------------------------------------------------------------------------
(* HeartbeatService *)

PkgNames == {"x", "y"}

NoTimer == 0
NoBeat == [pc |-> "free", from |-> 0, new |-> {}]
NoAlert == [packages |-> {}, shown |-> {}]

HeartbeatInit ==
    /\ isRunning = FALSE
    /\ interval = NoTimer
    /\ hTimers = {}
    /\ beats = [b \in 1..MaxBeats |-> NoBeat]
    /\ notifiedPackages = {}
    /\ nStarts = 0
    /\ surfaced = [n \in PkgNames |-> 0]
    /\ lastAlert = NoAlert

FreeBeats == {b \in 1..MaxBeats : beats[b].pc = "free"}

\* a faulty filter that keeps every package of the alert: C32 must fail
\* with it
newDeniedPackages_all(packages, notified) == packages

\* alert.packages.filter(pkg => !this.notifiedPackages.has(pkg))
newDeniedPackages(packages, notified) == packages \ notified

\* start(): returns when the service runs; otherwise isRunning = true and the
\* initial sendHeartbeat, up to its await of getConfig
HStart ==
    /\ nStarts < MaxStarts
    /\ nStarts' = nStarts + 1
    /\ IF isRunning
       THEN UNCHANGED <<isRunning, beats>>
       ELSE /\ FreeBeats # {}
            /\ isRunning' = TRUE
            /\ LET b == CHOOSE x \in FreeBeats : TRUE IN
               beats' = [beats EXCEPT
                            ![b] = [pc |-> "config", from |-> nStarts + 1,
                                    new |-> {}]]
    /\ UNCHANGED <<interval, hTimers, notifiedPackages, surfaced, lastAlert>>

\* stop(), also called by the disposable of context.subscriptions
HStop ==
    /\ hTimers' = hTimers \ {interval}
    /\ interval' = NoTimer
    /\ isRunning' = FALSE
    /\ UNCHANGED <<beats, notifiedPackages, nStarts, surfaced, lastAlert>>

\* the interval timer t fires: sendHeartbeat up to its await of getConfig
HTick(t) ==
    /\ t \in hTimers
    /\ FreeBeats # {}
    /\ LET b == CHOOSE x \in FreeBeats : TRUE IN
       beats' = [beats EXCEPT
                    ![b] = [pc |-> "config", from |-> 0, new |-> {}]]
    /\ UNCHANGED <<isRunning, interval, hTimers, notifiedPackages, nStarts,
                   surfaced, lastAlert>>

\* sendHeartbeat of beat b returns: the start() call that awaited it goes on
\* with setInterval, this.interval = ..., subscriptions.push
BeatEnds(b) ==
    /\ beats' = [beats EXCEPT ![b] = NoBeat]
    /\ IF beats[b].from # 0
       THEN /\ hTimers' = hTimers \cup {beats[b].from}
            /\ interval' = beats[b].from
       ELSE UNCHANGED <<hTimers, interval>>

\* getConfig resolves with a configuration: client.heartbeat() is called
HSend(b) ==
    /\ beats[b].pc = "config"
    /\ beats' = [beats EXCEPT ![b].pc = "wait"]
    /\ UNCHANGED <<isRunning, interval, hTimers, notifiedPackages, nStarts,
                   surfaced, lastAlert>>

\* getConfig resolves without one, or unauthenticated: heartbeat skipped
HSkip(b) ==
    /\ beats[b].pc = "config"
    /\ BeatEnds(b)
    /\ UNCHANGED <<isRunning, notifiedPackages, nStarts, surfaced, lastAlert>>

\* client.heartbeat() resolves with status healthy or with no response, or
\* throws: nothing is shown
HQuiet(b) ==
    /\ beats[b].pc = "wait"
    /\ BeatEnds(b)
    /\ UNCHANGED <<isRunning, notifiedPackages, nStarts, surfaced, lastAlert>>

\* client.heartbeat() resolves with status warning and an alert:
\* handleDeniedPackagesAlert up to its await of the modal warning
HAlert(b, packages) ==
    /\ beats[b].pc = "wait"
    /\ LET new == newDeniedPackages(packages, notifiedPackages) IN
       /\ lastAlert' = [packages |-> packages, shown |-> new]
       /\ IF new = {}
          THEN /\ BeatEnds(b)
               /\ UNCHANGED <<notifiedPackages, surfaced>>
          ELSE /\ notifiedPackages' = notifiedPackages \cup new
               /\ surfaced' = [n \in PkgNames |->
                                  IF n \in new THEN Min(surfaced[n] + 1, MaxCount)
                                  ELSE surfaced[n]]
               /\ beats' = [beats EXCEPT ![b].pc = "modal", ![b].new = new]
               /\ UNCHANGED <<hTimers, interval>>
    /\ UNCHANGED <<isRunning, nStarts>>

\* the user closes the modal warning: notifications.showWarning, return
HModalClosed(b) ==
    /\ beats[b].pc = "modal"
    /\ BeatEnds(b)
    /\ UNCHANGED <<isRunning, notifiedPackages, nStarts, surfaced, lastAlert>>

----------------------------------------------------------------------------
(* NpmDependencyParser, MavenDependencyParser and the diff of handleFileChange *)

\* package.json, well-formed: the keys of dependencies and of devDependencies
NpmContents == [dependencies : SUBSET DepNames, devDependencies : SUBSET DepNames]

\* previousContent || '' of a file without cache entry
NoNpm == [dependencies |-> {}, devDependencies |-> {}]

\* pom.xml, well-formed: the groupId:artifactId of its <dependency> blocks,
\* in the order of the text
MavenContents == UNION {[1..k -> DepNames] : k \in 0..MaxBlocks}

\* Object.keys lists the keys of an object in the order of the text; the
\* model lists them in this order
DepOrder == <<"a", "b">>

\* NpmDependencyParser.extractDependencies
npmExtractDependencies(content) ==
    content.dependencies \cup content.devDependencies

\* NpmDependencyParser.parseAllDependencies, the names
npmParseAllDependencies(content) ==
    content.dependencies \cup content.devDependencies

\* a faulty parseNewDependencies that does not look at previousContent: C34
\* must fail with it
npmParseNewDependencies_all(content, previousContent) ==
    SelectSeq(DepOrder, LAMBDA n : n \in npmExtractDependencies(content))

\* NpmDependencyParser.parseNewDependencies, the names
npmParseNewDependencies(content, previousContent) ==
    SelectSeq(DepOrder,
              LAMBDA n : /\ n \in npmExtractDependencies(content)
                         /\ n \notin npmExtractDependencies(previousContent))

\* MavenDependencyParser.extractDependencies
mvnExtractDependencies(content) == SeqRange(content)

\* MavenDependencyParser.parseAllDependencies, the names: one per match
mvnParseAllDependencies(content) == content

\* MavenDependencyParser.parseNewDependencies, the names: one per match of
\* DEPENDENCY_PATTERN in content
mvnParseNewDependencies(content, previousContent) ==
    SelectSeq(content,
              LAMBDA n : /\ n \notin mvnExtractDependencies(previousContent)
                         /\ n \in mvnExtractDependencies(content))

\* handleFileChange: the entries of the status map whose name
\* currentDepNames lacks
removedNames(tracked, currentDepNames) ==
    {n \in tracked : n \notin currentDepNames}

\* no diff is followed
ParserIdle ==
    /\ pKind = "none"
    /\ npmPrev = NoNpm
    /\ npmCur = NoNpm
    /\ mvnPrev = <<>>
    /\ mvnCur = <<>>
    /\ pTracked = {}
    /\ pPc = "off"
    /\ newDeps = <<>>
    /\ pRemoved = {}

\* a change event for a package.json or a pom.xml, after readFile
ParserInit ==
    /\ pKind \in {"npm", "maven"}
    /\ npmPrev \in (IF pKind = "npm" THEN NpmContents ELSE {NoNpm})
    /\ npmCur \in (IF pKind = "npm" THEN NpmContents ELSE {NoNpm})
    /\ mvnPrev \in (IF pKind = "maven" THEN MavenContents ELSE {<<>>})
    /\ mvnCur \in (IF pKind = "maven" THEN MavenContents ELSE {<<>>})
    /\ pTracked \in SUBSET DepNames
    /\ pPc = "start"
    /\ newDeps = <<>>
    /\ pRemoved = {}

\* parser.parseNewDependencies(currentContent, previousContent) of package.json
NpmDiff ==
    /\ pPc = "start"
    /\ pKind = "npm"
    /\ newDeps' = npmParseNewDependencies(npmCur, npmPrev)
    /\ pPc' = "new"
    /\ UNCHANGED <<pKind, npmPrev, npmCur, mvnPrev, mvnCur, pTracked, pRemoved>>

\* parser.parseNewDependencies(currentContent, previousContent) of pom.xml
MavenDiff ==
    /\ pPc = "start"
    /\ pKind = "maven"
    /\ newDeps' = mvnParseNewDependencies(mvnCur, mvnPrev)
    /\ pPc' = "new"
    /\ UNCHANGED <<pKind, npmPrev, npmCur, mvnPrev, mvnCur, pTracked, pRemoved>>

\* the loop over newDependencies has put each one into the status map; the
\* loop over the status map picks the entries that currentDepNames lacks
DetectRemoved ==
    /\ pPc = "new"
    /\ pTracked' = pTracked \cup SeqRange(newDeps)
    /\ pRemoved' = removedNames(
                       pTracked',
                       IF pKind = "npm"
                       THEN npmParseAllDependencies(npmCur)
                       ELSE SeqRange(mvnParseAllDependencies(mvnCur)))
    /\ pPc' = "done"
    /\ UNCHANGED <<pKind, npmPrev, npmCur, mvnPrev, mvnCur, newDeps>>

----------------------------------------------------------------------------
(* DiagnosticsProvider *)

\* DependencyDiagnostic.status, as far as updateDiagnostics tells them apart
DiagStatuses == {"pending", "denied", "approved"}

\* DependencyDiagnostic: the name and what else the caller passes
DependencyDiagnostics == [name : DepNames, status : DiagStatuses]

\* a Map without the key
NoList == [has |-> FALSE, list |-> <<>>]

\* no addDiagnostic call for the key so far
NeverAdded == [name |-> "none", status |-> "none"]

DiagKeys == Manifests \X DepNames

ProviderInit ==
    /\ fileDiagnostics = [m \in Manifests |-> NoList]
    /\ diagnosticCollection = [m \in Manifests |-> NoList]
    /\ nDiagOps = 0
    /\ lastAdded = [k \in DiagKeys |-> NeverAdded]
    /\ dOp = [op |-> "none", uri |-> "none", name |-> "none"]

\* diagnostics.findIndex(d => d.name === name): 0 stands for -1
findIndex(list, name) ==
    IF \E i \in 1..Len(list) : list[i].name = name
    THEN CHOOSE i \in 1..Len(list) :
             /\ list[i].name = name
             /\ \A j \in 1..(i - 1) : list[j].name # name
    ELSE 0

\* diagnostics.splice(index, 1)
splice(list, index) ==
    [i \in 1..(Len(list) - 1) |-> IF i < index THEN list[i] ELSE list[i + 1]]

\* a faulty addDiagnostic that pushes without looking for the name: C37 must
\* fail with it
upsert_push(list, diagnostic) == Append(list, diagnostic)

\* addDiagnostic on the list of the file: drop the entry of the name, push
upsert(list, diagnostic) ==
    LET index == findIndex(list, diagnostic.name) IN
    Append(IF index > 0 THEN splice(list, index) ELSE list, diagnostic)

\* updateDiagnostics, the switch: severity and icon of a status
vsDiagnostic(d) ==
    [name |-> d.name,
     severity |-> CASE d.status = "denied" -> "Error"
                    [] d.status = "pending" -> "Warning"
                    [] OTHER -> "Information",
     icon |-> CASE d.status = "denied" -> "cross"
                [] d.status = "pending" -> "hourglass"
                [] OTHER -> "check",
     source |-> "RepoGate"]

\* updateDiagnostics: diagnosticCollection.set(uri, diagnostics.map(...))
updateDiagnostics(list) ==
    [has |-> TRUE, list |-> [i \in 1..Len(list) |-> vsDiagnostic(list[i])]]

\* addDiagnostic(uri, diagnostic)
DAdd(m, d) ==
    /\ nDiagOps < MaxDiagOps
    /\ nDiagOps' = nDiagOps + 1
    /\ LET list == upsert(fileDiagnostics[m].list, d) IN
       /\ fileDiagnostics' =
              [fileDiagnostics EXCEPT ![m] = [has |-> TRUE, list |-> list]]
       /\ diagnosticCollection' =
              [diagnosticCollection EXCEPT ![m] = updateDiagnostics(list)]
    /\ lastAdded' = [lastAdded EXCEPT ![<<m, d.name>>] = d]
    /\ dOp' = [op |-> "add", uri |-> m, name |-> d.name]

\* removeDiagnostic(uri, packageName)
DRemove(m, n) ==
    /\ nDiagOps < MaxDiagOps
    /\ nDiagOps' = nDiagOps + 1
    /\ LET index == findIndex(fileDiagnostics[m].list, n)
           list == splice(fileDiagnostics[m].list, index) IN
       IF fileDiagnostics[m].has /\ index > 0
       THEN /\ fileDiagnostics' =
                   [fileDiagnostics EXCEPT ![m] = [has |-> TRUE, list |-> list]]
            /\ diagnosticCollection' =
                   [diagnosticCollection EXCEPT ![m] = updateDiagnostics(list)]
       ELSE UNCHANGED <<fileDiagnostics, diagnosticCollection>>
    /\ dOp' = [op |-> "remove", uri |-> m, name |-> n]
    /\ UNCHANGED lastAdded

\* clearFile(uri)
DClearFile(m) ==
    /\ nDiagOps < MaxDiagOps
    /\ nDiagOps' = nDiagOps + 1
    /\ fileDiagnostics' = [fileDiagnostics EXCEPT ![m] = NoList]
    /\ diagnosticCollection' = [diagnosticCollection EXCEPT ![m] = NoList]
    /\ dOp' = [op |-> "clearFile", uri |-> m, name |-> "none"]
    /\ UNCHANGED lastAdded

\* clearAll()
DClearAll ==
    /\ nDiagOps < MaxDiagOps
    /\ nDiagOps' = nDiagOps + 1
    /\ fileDiagnostics' = [m \in Manifests |-> NoList]
    /\ diagnosticCollection' = [m \in Manifests |-> NoList]
    /\ dOp' = [op |-> "clearAll", uri |-> "none", name |-> "none"]
    /\ UNCHANGED lastAdded

\* the services of this section before their first call
ServicesInit == HeartbeatInit /\ ParserIdle /\ ProviderInit

----------------------------------------------------------------------------
(* Specifications *)

\* no run of bootstrapQueue is followed file by file
QueueIdle ==
    /\ qFiles = [f \in SeqRange(FileNames) |-> Absent]
    /\ qPc = "off"
    /\ qTodo = <<>>
    /\ qGroups = <<>>
    /\ qPending = <<>>
    /\ qCalls = <<>>
    /\ qResult = "none"

\* no call of the api client is followed invocation by invocation
GatewayIdle ==
    /\ rOp = "none"
    /\ rPc = "off"
    /\ rAttempt = 0
    /\ rHistory = <<>>
    /\ rResult = <<>>

\* the backend has not decided
Undecided == decided = FALSE

FunctionsIdle == QueueIdle /\ GatewayIdle /\ Undecided /\ ServicesInit

Init == WatcherInit /\ ValidatorInit /\ BootstrapInit /\ FunctionsIdle

\* GradleWatcher alone
Next ==
    \/ \E m \in Manifests, c \in SUBSET Names :
          ChangeEvent(m, c) /\ UNCHANGED <<vvars, bvars, fvars>>
    \/ \E e \in 1..MaxEvents : ReadFile(e) /\ UNCHANGED <<vvars, bvars, fvars>>
    \/ \E e \in 1..MaxEvents, s \in Answers :
          RequestResponse(e, s) /\ UNCHANGED <<vvars, bvars, fvars>>
    \/ \E e \in 1..MaxEvents : RequestFail(e) /\ UNCHANGED <<vvars, bvars, fvars>>
    \/ \E o \in Objs : StartPollingSet(o) /\ UNCHANGED <<vvars, bvars, fvars>>
    \/ \E o \in Objs : Tick(o) /\ UNCHANGED <<vvars, bvars, fvars>>
    \/ \E o \in Objs, s \in Answers :
          CheckResponse(o, s) /\ UNCHANGED <<vvars, bvars, fvars>>
    \/ \E o \in Objs : CheckFail(o) /\ UNCHANGED <<vvars, bvars, fvars>>
    \/ \E e \in 1..MaxEvents : UpdateDone(e) /\ UNCHANGED <<vvars, bvars, fvars>>
    \/ \E e \in 1..MaxEvents : UpdateFail(e) /\ UNCHANGED <<vvars, bvars, fvars>>

Spec == Init /\ [][Next]_vars

\* a workspace with one manifest
TheManifest == "m1"

\* GradleWatcher with what else can happen to the manifest and the watcher:
\* content that does not parse, deletion of the manifest, shutdown

LifecycleNext ==
    \/ \E c \in Contents :
          ChangeEvent(TheManifest, c) /\ UNCHANGED <<vvars, bvars, fvars>>
    \/ \E e \in 1..MaxEvents : ReadFile(e) /\ UNCHANGED <<vvars, bvars, fvars>>
    \/ \E e \in 1..MaxEvents, s \in Answers :
          RequestResponse(e, s) /\ UNCHANGED <<vvars, bvars, fvars>>
    \/ \E e \in 1..MaxEvents : RequestFail(e) /\ UNCHANGED <<vvars, bvars, fvars>>
    \/ \E o \in Objs : StartPollingSet(o) /\ UNCHANGED <<vvars, bvars, fvars>>
    \/ \E o \in Objs : Tick(o) /\ UNCHANGED <<vvars, bvars, fvars>>
    \/ \E o \in Objs, s \in Answers :
          CheckResponse(o, s) /\ UNCHANGED <<vvars, bvars, fvars>>
    \/ \E o \in Objs : CheckFail(o) /\ UNCHANGED <<vvars, bvars, fvars>>
    \/ \E e \in 1..MaxEvents : UpdateDone(e) /\ UNCHANGED <<vvars, bvars, fvars>>
    \/ \E e \in 1..MaxEvents : UpdateFail(e) /\ UNCHANGED <<vvars, bvars, fvars>>
    \/ FileDelete(TheManifest) /\ UNCHANGED <<vvars, bvars, fvars>>
    \/ Dispose /\ UNCHANGED <<vvars, bvars, fvars>>

LifecycleSpec == Init /\ [][LifecycleNext]_vars

\* GradleWatcher while the token is cleared and set by the commands
TokenNext ==
    \/ \E c \in SUBSET Names :
          ChangeEvent(TheManifest, c) /\ UNCHANGED <<vvars, bvars, fvars>>
    \/ \E e \in 1..MaxEvents : ReadFile(e) /\ UNCHANGED <<vvars, bvars, fvars>>
    \/ \E e \in 1..MaxEvents, s \in Answers :
          RequestResponse(e, s) /\ UNCHANGED <<vvars, bvars, fvars>>
    \/ \E e \in 1..MaxEvents : RequestFail(e) /\ UNCHANGED <<vvars, bvars, fvars>>
    \/ \E o \in Objs : StartPollingSet(o) /\ UNCHANGED <<vvars, bvars, fvars>>
    \/ \E o \in Objs : Tick(o) /\ UNCHANGED <<vvars, bvars, fvars>>
    \/ \E o \in Objs, s \in Answers :
          CheckResponse(o, s) /\ UNCHANGED <<vvars, bvars, fvars>>
    \/ \E o \in Objs : CheckFail(o) /\ UNCHANGED <<vvars, bvars, fvars>>
    \/ \E e \in 1..MaxEvents : UpdateDone(e) /\ UNCHANGED <<vvars, bvars, fvars>>
    \/ \E e \in 1..MaxEvents : UpdateFail(e) /\ UNCHANGED <<vvars, bvars, fvars>>
    \/ ClearToken /\ UNCHANGED <<vvars, bvars, fvars>>
    \/ SetToken /\ UNCHANGED <<vvars, bvars, fvars>>

TokenSpec == Init /\ [][TokenNext]_vars

\* activate has found the marker or bootstrapQueue has returned true, and
\* startWatchers constructs the watcher in a workspace whose manifest
\* declares the names c
StartupInit ==
    /\ \E c \in SUBSET Names :
          WatcherStart([m \in Manifests |-> IF m = TheManifest THEN c ELSE {}])
    /\ ValidatorInit
    /\ BootstrapInit
    /\ FunctionsIdle

\* GradleWatcher from there on
StartupNext ==
    \/ \E c \in SUBSET Names :
          ChangeEvent(TheManifest, c) /\ UNCHANGED <<vvars, bvars, fvars>>
    \/ \E e \in 1..MaxEvents : ReadFile(e) /\ UNCHANGED <<vvars, bvars, fvars>>
    \/ \E e \in 1..MaxEvents, s \in Answers :
          RequestResponse(e, s) /\ UNCHANGED <<vvars, bvars, fvars>>
    \/ \E e \in 1..MaxEvents : RequestFail(e) /\ UNCHANGED <<vvars, bvars, fvars>>
    \/ \E o \in Objs : StartPollingSet(o) /\ UNCHANGED <<vvars, bvars, fvars>>
    \/ \E o \in Objs : Tick(o) /\ UNCHANGED <<vvars, bvars, fvars>>
    \/ \E o \in Objs, s \in Answers :
          CheckResponse(o, s) /\ UNCHANGED <<vvars, bvars, fvars>>
    \/ \E o \in Objs : CheckFail(o) /\ UNCHANGED <<vvars, bvars, fvars>>
    \/ \E e \in 1..MaxEvents : UpdateDone(e) /\ UNCHANGED <<vvars, bvars, fvars>>
    \/ \E e \in 1..MaxEvents : UpdateFail(e) /\ UNCHANGED <<vvars, bvars, fvars>>

StartupSpec == StartupInit /\ [][StartupNext]_vars

\* DependencyValidator alone
ValidatorNext ==
    \/ \E k \in VKeys : Validate(k) /\ UNCHANGED <<wvars, bvars, fvars>>
    \/ \E k \in VKeys, s \in Answers :
          ValidateResponse(k, s) /\ UNCHANGED <<wvars, bvars, fvars>>
    \/ \E k \in VKeys, t \in FailureKinds : ValidateFail(k, t) /\ UNCHANGED <<wvars, bvars, fvars>>
    \/ \E k \in VKeys : RetryTick(k) /\ UNCHANGED <<wvars, bvars, fvars>>
    \/ \E k \in VKeys, s \in Answers : RetryResponse(k, s) /\ UNCHANGED <<wvars, bvars, fvars>>
    \/ \E k \in VKeys : RetryFail(k) /\ UNCHANGED <<wvars, bvars, fvars>>
    \/ \E k \in VKeys : PollTick(k) /\ UNCHANGED <<wvars, bvars, fvars>>
    \/ \E k \in VKeys, s \in Answers : PollResponse(k, s) /\ UNCHANGED <<wvars, bvars, fvars>>
    \/ \E k \in VKeys : PollFail(k) /\ UNCHANGED <<wvars, bvars, fvars>>

\* setInterval keeps firing a timer that stays registered, and every call of
\* the client ends (axios timeout: 30000)
ValidatorFairness ==
    \A k \in VKeys :
        /\ WF_vars(RetryTick(k) /\ UNCHANGED <<wvars, bvars, fvars>>)
        /\ WF_vars((RetryFail(k) \/ \E s \in Answers : RetryResponse(k, s))
                     /\ UNCHANGED <<wvars, bvars, fvars>>)

ValidatorSpec == Init /\ [][ValidatorNext]_vars /\ ValidatorFairness

\* activation, bootstrap and manual scan alone
BootstrapNext ==
    \/ ActivatePassive /\ UNCHANGED <<wvars, vvars, mvars, fvars>>
    \/ \E w \in Workspaces : Activate(w) /\ UNCHANGED <<wvars, vvars, mvars, fvars>>
    \/ \E ecos \in SUBSET SeqRange(Ecosystems) :
          ActFiles(ecos) /\ UNCHANGED <<wvars, vvars, mvars, fvars>>
    \/ ActQueueOk /\ UNCHANGED <<wvars, vvars, mvars, fvars>>
    \/ ActQueueFail /\ UNCHANGED <<wvars, vvars, mvars, fvars>>
    \/ ActRunOk /\ UNCHANGED <<wvars, vvars, mvars, fvars>>
    \/ ScanNow /\ UNCHANGED <<wvars, vvars, mvars, fvars>>
    \/ \E ecos \in SUBSET SeqRange(Ecosystems) :
          ScanFiles(ecos) /\ UNCHANGED <<wvars, vvars, mvars, fvars>>
    \/ ScanQueueOk /\ UNCHANGED <<wvars, vvars, mvars, fvars>>
    \/ ScanQueueFail /\ UNCHANGED <<wvars, vvars, mvars, fvars>>
    \/ ScanRunOk /\ UNCHANGED <<wvars, vvars, mvars, fvars>>
    \/ Deactivate /\ UNCHANGED <<wvars, vvars, mvars, fvars>>
    \/ MonitorStart /\ UNCHANGED <<wvars, vvars, svars, fvars>>
    \/ \E packages \in BOOLEAN, configured \in BOOLEAN :
          MonitorFiles(packages, configured) /\ UNCHANGED <<wvars, vvars, svars, fvars>>
    \/ MonitorQueueDone /\ UNCHANGED <<wvars, vvars, svars, fvars>>
    \/ MonitorQueueFail /\ UNCHANGED <<wvars, vvars, svars, fvars>>
    \/ MonitorStop /\ UNCHANGED <<wvars, vvars, svars, fvars>>

BootstrapSpec == Init /\ [][BootstrapNext]_vars

\* DependencyMonitor alone: the initial scan and the manual scans
MonitorNext ==
    \/ MonitorStart /\ UNCHANGED <<wvars, vvars, svars, fvars>>
    \/ \E packages \in BOOLEAN, configured \in BOOLEAN :
          MonitorFiles(packages, configured) /\ UNCHANGED <<wvars, vvars, svars, fvars>>
    \/ MonitorQueueDone /\ UNCHANGED <<wvars, vvars, svars, fvars>>
    \/ MonitorQueueFail /\ UNCHANGED <<wvars, vvars, svars, fvars>>
    \/ MonitorStop /\ UNCHANGED <<wvars, vvars, svars, fvars>>
    \/ ManualScan /\ UNCHANGED <<wvars, vvars, svars, fvars>>
    \/ \E packages \in BOOLEAN :
          ManualFiles(packages) /\ UNCHANGED <<wvars, vvars, svars, fvars>>
    \/ ManualQueueOk /\ UNCHANGED <<wvars, vvars, svars, fvars>>
    \/ ManualQueueFail /\ UNCHANGED <<wvars, vvars, svars, fvars>>

MonitorSpec == Init /\ [][MonitorNext]_vars

\* one run of bootstrapQueue in any workspace
QueueRunInit ==
    /\ WatcherInit /\ ValidatorInit /\ BootstrapInit
    /\ QueueInit /\ GatewayIdle /\ Undecided /\ ServicesInit

QueueNext ==
    \/ QFind /\ UNCHANGED <<wvars, vvars, bvars, rvars, evars, gvars>>
    \/ QRead /\ UNCHANGED <<wvars, vvars, bvars, rvars, evars, gvars>>
    \/ QQueueOk /\ UNCHANGED <<wvars, vvars, bvars, rvars, evars, gvars>>
    \/ QQueueFail /\ UNCHANGED <<wvars, vvars, bvars, rvars, evars, gvars>>

QueueSpec == QueueRunInit /\ [][QueueNext]_vars

\* one call of the api client
GatewayRunInit ==
    /\ WatcherInit /\ ValidatorInit /\ BootstrapInit
    /\ QueueIdle /\ GatewayInit /\ Undecided /\ ServicesInit

GatewayNext ==
    \/ \E op \in Operations : GCall(op) /\ UNCHANGED <<wvars, vvars, bvars, qvars, evars, gvars>>
    \/ GInvokeOk /\ UNCHANGED <<wvars, vvars, bvars, qvars, evars, gvars>>
    \/ \E status \in Failures :
          GInvokeFail(status) /\ UNCHANGED <<wvars, vvars, bvars, qvars, evars, gvars>>
    \/ GSleepEnd /\ UNCHANGED <<wvars, vvars, bvars, qvars, evars, gvars>>

\* every invocation ends (axios gives up after its timeout of 30 s) and the
\* timer of sleep fires
GatewayFairness ==
    /\ WF_vars((GInvokeOk \/ \E status \in Failures : GInvokeFail(status))
                /\ UNCHANGED <<wvars, vvars, bvars, qvars, evars, gvars>>)
    /\ WF_vars(GSleepEnd /\ UNCHANGED <<wvars, vvars, bvars, qvars, evars, gvars>>)

GatewaySpec == GatewayRunInit /\ [][GatewayNext]_vars /\ GatewayFairness

----------------------------------------------------------------------------
(* Claims about GradleWatcher *)

TrackedObjs == UNION {SeqRange(statusCache[m]) : m \in Manifests}

\* the submission of o has been answered or has failed, and the startPolling
\* call it made has finished
Settled(o) ==
    /\ o \notin starting
    /\ \A e \in 1..MaxEvents :
          ~(handlers[e].pc \in {"request", "update"} /\ handlers[e].cur = o)

\* C1: after every transition handled by the watcher, a tracked dependency
\* has a registered poll timer for its key if and only if its status is
\* pending, scanning or not_found.
C1_PollTimerIffNonTerminal ==
    \A o \in TrackedObjs :
        Settled(o) =>
            (pollingIntervals[ObjKey(o)] # NoObj <=>
                 objStatus[o] \in NonTerminal)

\* handler e sends a request call in this step
RequestIssued(e) ==
    /\ handlers'[e].pc = "request"
    /\ handlers[e].pc # "request" \/ handlers'[e].cur # handlers[e].cur

\* C2: no request call is issued for a name while the dependency tracked for
\* it in that manifest is in a non-terminal status (each added name is
\* submitted exactly once).
C2_NoDoubleSubmission ==
    [][\A e \in 1..MaxEvents :
          RequestIssued(e) =>
              LET old == Tracked(handlers[e].uri, ObjName(handlers'[e].cur))
              IN old = NoObj \/ objStatus[old] \notin NonTerminal]_vars

\* C3: while a tracked dependency keeps receiving the same non-terminal
\* status, at most one notification for that status is shown.
C3_OneNonTerminalNotification ==
    \A o \in TrackedObjs : Settled(o) => ntShown[o] <= 1

\* C4: a tracked dependency that went to approved or denied has had exactly
\* one approval/denial notification for that verdict: never zero, never two.
C4_OneTerminalNotification ==
    \A o \in TrackedObjs :
        (Settled(o) /\ objStatus[o] \in Terminal) => tShown[o] = 1

\* a timer callback of o sends a check call in this step
CheckIssued(o) == inflight'[o] > inflight[o]

\* C5: once the removal of a dependency has been processed, no check call is
\* issued for its key.
C5_NoCheckAfterRemoval ==
    [][\A o \in Objs : CheckIssued(o) => ObjKey(o) \notin removedKeys]_vars

\* C6: at most one live timer per key, and every live timer is the one the
\* registry holds for its key.
C6_OneTimerPerKey ==
    \A o \in liveTimers : pollingIntervals[ObjKey(o)] = o

\* the poll task of o has been cancelled by a removal
CancelledByRemoval(o) ==
    \/ ObjKey(o) \in removedKeys
    \/ \E e \in 1..MaxEvents : handlers[e].pc = "update" /\ handlers[e].cur = o

\* C7: after the poll task of a key has been cancelled by a removal, a poll
\* response for it re-creates no diagnostic and shows no notification.
C7_NoEffectAfterCancel ==
    [][\A o \in Objs :
          (inflight'[o] < inflight[o] /\ CancelledByRemoval(o)) =>
              /\ diag' = diag
              /\ pendingNotifications' = pendingNotifications]_vars

\* handler e has computed its diff and has not yet updated the file cache
Diffing(e) == handlers[e].pc \in {"request", "update"}

\* C8: the diff of a change event starts only when no other event of the
\* same manifest is between its diff and its file-cache update.
C8_DiffsSerialized ==
    [][\A e \in 1..MaxEvents :
          (handlers[e].pc = "read" /\ handlers'[e].pc # "read") =>
              ~\E f \in 1..MaxEvents :
                  /\ f # e
                  /\ handlers[f].uri = handlers[e].uri
                  /\ Diffing(f)]_vars

----------------------------------------------------------------------------
(* Claims about DependencyValidator *)

\* a retry timer has sent at most 30 requests since retryConnection set it,
\* and it is not registered once it has counted past 30
RetryBounded ==
    \A k \in VKeys :
        /\ retryRequests[k] <= 30
        /\ retryCount[k] > 30 => vTimer[k] # "retry"

\* a registered retry timer is cancelled in the end
RetryEnds ==
    \A k \in VKeys : (vTimer[k] = "retry") ~> (vTimer[k] # "retry")

\* C10: after an initial submission failed for a transport reason, the retry
\* timer sends at most 30 further request calls and is cancelled by the tick
\* that follows the 30th; a registered retry timer always ends, it never
\* retries indefinitely.
C10_ConnectionRetryGivesUp == []RetryBounded /\ RetryEnds

\* the retry timer sent its 30 requests, none succeeded, and it was cancelled
C10_Witness ==
    \E k \in VKeys :
        /\ retryRequests[k] = 30
        /\ retryCount[k] = 31
        /\ vTimer[k] = "none"
        /\ ~isConnected

----------------------------------------------------------------------------
(* Claims about the bootstrap *)

\* an activation of the workspace has reached the bootstrap check
InEntry == session \in {"bootstrap", "watching", "failed"}

----------------------------------------------------------------------------
(* Claims about the watcher's life cycle *)

\* C11: every registered poll timer's key belongs to a dependency that is
\* currently tracked.
C11_TimersOnlyForTracked ==
    \A k \in Keys : pollingIntervals[k] # NoObj => Tracked(k[1], k[2]) # NoObj

\* no poll task is left for a dependency of a deleted manifest
NoTaskOfDeleted ==
    \A k \in deletedKeys :
        /\ pollingIntervals[k] = NoObj
        /\ \A o \in liveTimers : ObjKey(o) # k

\* no check call is issued for a dependency of a deleted manifest
NoCheckOfDeleted ==
    \A o \in Objs : CheckIssued(o) => ObjKey(o) \notin deletedKeys

\* C12: after the deletion of a manifest has been processed, no poll task
\* remains for a dependency it tracked and no check call is issued for one.
C12_NoPollAfterDelete == []NoTaskOfDeleted /\ [][NoCheckOfDeleted]_vars

\* after dispose no poll timer is registered or live
NoTimerAfterDispose ==
    disposed => /\ liveTimers = {}
                /\ \A k \in Keys : pollingIntervals[k] = NoObj

\* after dispose no poll timer fires
NoTickAfterDispose ==
    \A o \in Objs : CheckIssued(o) => ~disposed

\* C13: once dispose has run no poll timer is registered, and none is created
\* or fires afterwards, whatever was in flight when it ran.
C13_NoTimerAfterDispose == []NoTimerAfterDispose /\ [][NoTickAfterDispose]_vars

\* handler e takes its step after readFile, on content that does not parse
ParseFails(e) ==
    /\ handlers[e].pc = "read"
    /\ handlers'[e].pc # "read"
    /\ disk[handlers[e].uri] = Malformed

\* C14: a change event whose content does not parse causes no removal
\* processing: no poll task is cancelled, no diagnostic removed, no update
\* call sent, no tracked entry deleted.
C14_ParseFailureRemovesNothing ==
    [][\A e \in 1..MaxEvents :
          ParseFails(e) => /\ handlers'[e].pc # "update"
                           /\ statusCache' = statusCache
                           /\ pollingIntervals' = pollingIntervals
                           /\ diag' = diag]_vars

\* every change event has been handled to its end
AllProcessed ==
    /\ nEvents > 0
    /\ \A e \in 1..MaxEvents : handlers[e].pc \in {"idle", "done"}

\* C15: once every change event of a manifest has been processed, the cached
\* content of the manifest is the content read for its last event.
C15_CacheIsLastContent ==
    AllProcessed =>
        \A m \in Manifests :
            (/\ \E e \in 1..MaxEvents : handlers[e].pc = "done"
                                        /\ handlers[e].uri = m
             /\ disk[m] # Absent)
            => fileCache[m] = disk[m]

\* a step in which the removal loop deletes the tracked entry of a key
EntryDeleted(m, n) ==
    /\ Tracked(m, n) # NoObj
    /\ Tracked(m, n)' = NoObj
    /\ mapGen' = mapGen

\* C16: when the removal of a tracked dependency has been processed, its poll
\* task is cancelled, its diagnostic is removed, its entry is deleted and
\* exactly one update call has been sent for it.
C16_RemovalDoesAllFour ==
    [][\A m \in Manifests, n \in Names :
          EntryDeleted(m, n) => /\ pollingIntervals'[<<m, n>>] = NoObj
                                /\ diag'[<<m, n>>] = NoDiag
                                /\ updates[Tracked(m, n)] = 1]_vars

\* handler e leaves handleRemovedDependency
RemovalEnds(e) ==
    /\ handlers[e].pc = "update"
    /\ handlers'[e].pc # "update"

\* C17: the removal confirmation is shown when the removed dependency's last
\* known status is denied, whether or not the update call succeeded, and in
\* no other case.
C17_ConfirmationIffDenied ==
    [][/\ \A e \in 1..MaxEvents :
            RemovalEnds(e) => ((confirmParity' # confirmParity)
                               <=> objStatus[handlers[e].cur] = "denied")
       /\ (confirmParity' # confirmParity)
            => \E e \in 1..MaxEvents : RemovalEnds(e)]_vars

----------------------------------------------------------------------------
(* Claims about a bootstrap that fails *)

\* a queue call of activate's run throws
ActRunThrows == actRun.pc = "queue" /\ actOutcome' = "failed"

\* a queue call of scanNow's run throws
ScanRunThrows == scanRun.pc = "queue" /\ scanRun' = NoRun /\ session' # "off"

\* the queue request of the initial scan throws
MonitorRunThrows == monitor = "queue" /\ monitorFailed'

\* C18: when a queue call of a bootstrap run throws, the completed marker is
\* false when the run ends.
C18_FailedRunLeavesUnmarked ==
    [][/\ ActRunThrows => ~isBootstrapCompleted(completed', workspace)
       /\ ScanRunThrows => ~isBootstrapCompleted(completed', workspace)
       /\ MonitorRunThrows => ~scanCompleted']_vars

\* C19: a bootstrap that fails during activation shows exactly one failure
\* message; activate returns normally.
C19_OneFailureSignal ==
    actOutcome = "failed" => (actSignals = 1 /\ session = "failed")

\* watchers run only after a bootstrap check that succeeded or found the marker
WatchersOnlyAfterBootstrap ==
    /\ watchers => actOutcome \in {"marked", "succeeded"}
    /\ actOutcome = "failed" => ~watchers

\* nothing starts the watchers of a session whose bootstrap has failed
FailedStaysDisabled ==
    (actOutcome = "failed" /\ session' # "off") => ~watchers'

\* when the watchers are started the workspace is marked completed
StartedOnMarked ==
    (~watchers /\ watchers') => isBootstrapCompleted(completed', workspace')

\* C20: file watchers are started only after a bootstrap that succeeded or
\* was already marked completed; when the bootstrap of an activation fails no
\* watcher is started, then or later in the session.
C20_WatchersOnlyAfterBootstrap ==
    /\ []WatchersOnlyAfterBootstrap
    /\ [][FailedStaysDisabled /\ StartedOnMarked]_vars

\* the bootstrap of the activation has failed, an explicit scan has since run
\* to its end and marked the workspace, and no watcher runs
C20_Witness ==
    /\ actOutcome = "failed"
    /\ session = "failed"
    /\ ~watchers
    /\ nScans >= 1
    /\ scanRun = NoRun
    /\ isBootstrapCompleted(completed, workspace)

----------------------------------------------------------------------------
(* Claims about the caches after the bootstrap *)

\* handler e is about to diff the first change event of its manifest
FirstEvent(e) ==
    /\ handlers[e].pc = "read"
    /\ handlers'[e].pc # "read"
    /\ \A f \in 1..(e - 1) : handlers[f].uri # handlers[e].uri

\* the names handler e submits or is about to submit
Reported(e) ==
    SeqRange(handlers[e].todo)
        \cup (IF handlers[e].pc = "request" THEN {ObjName(handlers[e].cur)}
              ELSE {})

\* C21: the caches of a manifest that existed at bootstrap time hold its
\* content, so its first change event reports as added, and submits, only
\* names that were absent at bootstrap time.
C21_FirstEventReportsOnlyNew ==
    [][\A e \in 1..MaxEvents :
          FirstEvent(e) =>
              /\ fileCache[handlers[e].uri] = bootContent[handlers[e].uri]
              /\ Reported(e)' \subseteq
                     (parseAllDependencies(disk[handlers[e].uri])
                        \ parseAllDependencies(bootContent[handlers[e].uri]))
      ]_vars

----------------------------------------------------------------------------
(* Claims about the manual scan *)

\* the run of scanNow ends with every queue call resolved
ScanNowSucceeds == scanRun.pc = "ok" /\ scanRun'.pc = "idle" /\ session' # "off"

\* the request of manualScan resolves
ManualScanSucceeds == manualRun = "queue" /\ manualOk'

\* C22: a manual scan runs whatever the completed marker says, and when it
\* has succeeded the completed marker is true.
C22_ManualScanMarks ==
    [][/\ ScanNowSucceeds => isBootstrapCompleted(completed', workspace)
       /\ ManualScanSucceeds => scanCompleted']_vars

----------------------------------------------------------------------------
(* Claims about the queue calls of a bootstrap run *)

\* the ecosystem a manifest belongs to
EcosystemOf(fileName) ==
    CASE fileName = "package.json" -> "npm"
      [] fileName = "pom.xml" -> "maven"
      [] OTHER -> "gradle"

\* the dependencies the run has parsed from the manifests of an ecosystem
ParsedOf(eco) ==
    {<<d, f>> \in DepNames \X SeqRange(FileNames) :
        /\ EcosystemOf(f) = eco
        /\ qFiles[f] \notin {Absent, Unreadable}
        /\ d \in qFiles[f]}

Decide ==
    /\ ~decided
    /\ decided' = TRUE

PollNext ==
    \/ \E c \in SUBSET Names :
          /\ nEvents < MaxPollEvents
          /\ ChangeEvent(TheManifest, c)
          /\ UNCHANGED <<vvars, bvars, fvars>>
    \/ \E e \in 1..MaxEvents : ReadFile(e) /\ UNCHANGED <<vvars, bvars, fvars>>
    \/ \E e \in 1..MaxEvents, s \in Answers :
          RequestResponse(e, s) /\ UNCHANGED <<vvars, bvars, fvars>>
    \/ \E e \in 1..MaxEvents : RequestFail(e) /\ UNCHANGED <<vvars, bvars, fvars>>
    \/ \E o \in Objs : StartPollingSet(o) /\ UNCHANGED <<vvars, bvars, fvars>>
    \/ \E o \in Objs : Tick(o) /\ UNCHANGED <<vvars, bvars, fvars>>
    \/ \E o \in Objs, s \in Answers :
          /\ decided => s \in Terminal
          /\ CheckResponse(o, s)
          /\ UNCHANGED <<vvars, bvars, fvars>>
    \/ \E o \in Objs :
          ~decided /\ CheckFail(o) /\ UNCHANGED <<vvars, bvars, fvars>>
    \/ \E e \in 1..MaxEvents : UpdateDone(e) /\ UNCHANGED <<vvars, bvars, fvars>>
    \/ \E e \in 1..MaxEvents : UpdateFail(e) /\ UNCHANGED <<vvars, bvars, fvars>>
    \/ Decide /\ UNCHANGED <<wvars, vvars, bvars, qvars, rvars, gvars>>

\* every awaited promise settles, and every live timer fires again and again
PollFairness ==
    /\ \A e \in 1..MaxEvents :
          /\ WF_vars(ReadFile(e) /\ UNCHANGED <<vvars, bvars, fvars>>)
          /\ WF_vars((RequestFail(e) \/ \E s \in Answers : RequestResponse(e, s))
                      /\ UNCHANGED <<vvars, bvars, fvars>>)
          /\ WF_vars((UpdateDone(e) \/ UpdateFail(e))
                      /\ UNCHANGED <<vvars, bvars, fvars>>)
    /\ \A o \in Objs :
          /\ WF_vars(StartPollingSet(o) /\ UNCHANGED <<vvars, bvars, fvars>>)
          /\ SF_vars(Tick(o) /\ UNCHANGED <<vvars, bvars, fvars>>)
          /\ WF_vars(((~decided /\ CheckFail(o))
                       \/ \E s \in Answers :
                             (decided => s \in Terminal) /\ CheckResponse(o, s))
                      /\ UNCHANGED <<vvars, bvars, fvars>>)

PollSpec == Init /\ [][PollNext]_vars /\ PollFairness

\* HeartbeatService: start, stop, timer ticks, heartbeat responses
HeartbeatNext ==
    \/ HStart /\ UNCHANGED <<wvars, vvars, bvars, qvars, rvars, evars, pvars, dvars>>
    \/ HStop /\ UNCHANGED <<wvars, vvars, bvars, qvars, rvars, evars, pvars, dvars>>
    \/ \E t \in 1..MaxStarts :
          HTick(t) /\ UNCHANGED <<wvars, vvars, bvars, qvars, rvars, evars, pvars, dvars>>
    \/ \E b \in 1..MaxBeats :
          HSend(b) /\ UNCHANGED <<wvars, vvars, bvars, qvars, rvars, evars, pvars, dvars>>
    \/ \E b \in 1..MaxBeats :
          HSkip(b) /\ UNCHANGED <<wvars, vvars, bvars, qvars, rvars, evars, pvars, dvars>>
    \/ \E b \in 1..MaxBeats :
          HQuiet(b) /\ UNCHANGED <<wvars, vvars, bvars, qvars, rvars, evars, pvars, dvars>>
    \/ \E b \in 1..MaxBeats, packages \in SUBSET PkgNames :
          HAlert(b, packages)
              /\ UNCHANGED <<wvars, vvars, bvars, qvars, rvars, evars, pvars, dvars>>
    \/ \E b \in 1..MaxBeats :
          HModalClosed(b)
              /\ UNCHANGED <<wvars, vvars, bvars, qvars, rvars, evars, pvars, dvars>>

HeartbeatSpec == Init /\ [][HeartbeatNext]_vars

\* one diff of a well-formed package.json or pom.xml
ParserRunInit ==
    /\ WatcherInit /\ ValidatorInit /\ BootstrapInit
    /\ QueueIdle /\ GatewayIdle /\ Undecided /\ HeartbeatInit /\ ParserInit
    /\ ProviderInit

ParserNext ==
    \/ NpmDiff /\ UNCHANGED <<wvars, vvars, bvars, qvars, rvars, evars, hvars, dvars>>
    \/ MavenDiff /\ UNCHANGED <<wvars, vvars, bvars, qvars, rvars, evars, hvars, dvars>>
    \/ DetectRemoved
          /\ UNCHANGED <<wvars, vvars, bvars, qvars, rvars, evars, hvars, dvars>>

ParserSpec == ParserRunInit /\ [][ParserNext]_vars

\* any sequence of calls of the DiagnosticsProvider
ProviderNext ==
    \/ \E m \in Manifests, d \in DependencyDiagnostics :
          DAdd(m, d)
             /\ UNCHANGED <<wvars, vvars, bvars, qvars, rvars, evars, hvars, pvars>>
    \/ \E m \in Manifests, n \in DepNames :
          DRemove(m, n)
             /\ UNCHANGED <<wvars, vvars, bvars, qvars, rvars, evars, hvars, pvars>>
    \/ \E m \in Manifests :
          DClearFile(m)
             /\ UNCHANGED <<wvars, vvars, bvars, qvars, rvars, evars, hvars, pvars>>
    \/ DClearAll
          /\ UNCHANGED <<wvars, vvars, bvars, qvars, rvars, evars, hvars, pvars>>

ProviderSpec == Init /\ [][ProviderNext]_vars

----------------------------------------------------------------------------
(* Claims about the retries of the api client *)

\* the responses with a 4xx status
ClientErrors == {400, 404}

\* the invocations so far
Invocations == Len(rHistory)

RetryShape ==
    /\ Invocations <= 4
    /\ \A i \in 1..Len(rHistory) : rHistory[i] = Ok => i = Len(rHistory)
    /\ rPc = "returned" =>
          (rHistory # <<>> /\ rHistory[Len(rHistory)] = Ok /\ rResult = <<Ok>>)
    /\ rPc = "thrown" =>
          /\ rResult = <<rHistory[Len(rHistory)]>>
          /\ rResult[1] \in ClientErrors \/ Invocations = 4
    /\ rPc \in {"call", "sleep"} =>
          \A i \in 1..Len(rHistory) : rHistory[i] \notin ClientErrors \cup {Ok}

\* every call ends
CallEnds == (rPc = "call") ~> (rPc \in {"returned", "thrown"})

\* C25: after a 5xx or network failure the operation is invoked again, at most
\* 3 times (4 invocations); the first successful invocation ends the call with
\* its result; after the fourth failure the last error is thrown; every call
\* terminates.
C25_BoundedRetries == []RetryShape /\ CallEnds

\* check has thrown the last error after four failed invocations
C25_Witness ==
    /\ rOp = "check"
    /\ rPc = "thrown"
    /\ rHistory = <<500, NoResponse, 503, 500>>

----------------------------------------------------------------------------
(* Claims about the connection retry of DependencyValidator *)

\* an initial request of k fails in this step, and k has no timer
InitialRequestFails(k) ==
    /\ vAwait'[k].submit < vAwait[k].submit
    /\ lastFailure'[k] # "none"
    /\ vTimer[k] = "none"

\* the failures for a transport reason
TransportFailures == {"refused", "timeout", "5xx"}

\* C26: a dependency whose initial request fails gets a connection-retry
\* task exactly when the failure has a transport reason (5xx, timeout,
\* connection refused); after a 4xx no retry task is created and the status
\* is error.
C26_RetryIffTransportFailure ==
    [][\A k \in VKeys :
          InitialRequestFails(k) =>
              /\ vTimer'[k] = "retry" <=> lastFailure'[k] \in TransportFailures
              /\ lastFailure'[k] = "4xx" =>
                     (vStatus'[k] = "error" /\ vTimer'[k] = vTimer[k])]_vars

\* a request sent by the retry timer is answered in this step
RetrySucceeds(k) == retryHandled'[k] = retryHandled[k] + 1

\* C27: when an attempt of the retry timer succeeds the retry task stops and
\* the dependency takes the transition of the response exactly once: no timer
\* after approved or denied, one poll timer after the other answers, and no
\* second response of the same retry task is handled.
C27_RetrySuccessOnce ==
    [][\A k \in VKeys :
          RetrySucceeds(k) =>
              /\ vTimer'[k] # "retry"
              /\ vTimer'[k] = "poll" <=> vStatus'[k] \in NonTerminal
              /\ retryRequests'[k] = retryRequests[k]
              /\ retryHandled'[k] = 1]_vars

\* the retry timer of k gives up in this step
RetryExhausts(k) == warnings'[k] = warnings[k] + 1

\* C28: when the retry timer gives up the status is error, one "Could not
\* connect" warning has been shown, and no timer is left that would send
\* another request.
C28_ExhaustedIsError ==
    [][\A k \in VKeys :
          RetryExhausts(k) =>
              /\ vStatus'[k] = "error"
              /\ warnings'[k] = 1
              /\ vTimer'[k] = "none"]_vars

----------------------------------------------------------------------------
(* Claims about the status polling of GradleWatcher *)

\* a check of o ends and leaves o with a terminal status: a poll tick of o has
\* observed approved or denied (the request of a polled dependency was
\* answered with another status, and only check answers change it afterwards)
PollObservedTerminal(o) ==
    /\ inflight'[o] < inflight[o]
    /\ objStatus'[o] \in Terminal

\* no timer of the key of o is left
NoPollTask(o) ==
    /\ pollingIntervals[ObjKey(o)] = NoObj
    /\ \A t \in liveTimers : ObjKey(t) # ObjKey(o)

\* C30: once a poll tick has observed approved or denied for a dependency no
\* poll timer of its key is left and no further check is sent for it.
C30_NoPollAfterTerminal ==
    [][\A o \in Objs :
          /\ PollObservedTerminal(o) => NoPollTask(o)'
          /\ CheckIssued(o) => objStatus[o] \notin Terminal]_vars

\* o is the dependency object its manifest tracks under its name
IsTracked(o) == o \in TrackedObjs

\* a check of the tracked o ends and leaves its non-terminal status as it was
CheckLeavesStatus(o) ==
    /\ IsTracked(o)
    /\ inflight'[o] < inflight[o]
    /\ objStatus[o] \in NonTerminal
    /\ objStatus'[o] = objStatus[o]

\* C29: once the backend answers every check with approved or denied, a
\* tracked dependency with a non-terminal status is removed or reaches a
\* terminal status with no poll timer left for its key; a check that ends
\* without a new status (a failed check) leaves the timers as they were.
C29_PollingReachesTerminal ==
    /\ \A o \in Objs :
          (decided /\ IsTracked(o) /\ objStatus[o] \in NonTerminal)
              ~> (~IsTracked(o) \/ (objStatus[o] \in Terminal /\ NoPollTask(o)))
    /\ [][\A o \in Objs :
             CheckLeavesStatus(o) =>
                 /\ liveTimers' = liveTimers
                 /\ pollingIntervals' = pollingIntervals]_vars

----------------------------------------------------------------------------
(* Claims about the notifications of GradleWatcher *)

\* the request of o is answered in this step with the first status that is
\* recorded for its key
FirstAnswer(o) ==
    /\ \E e \in 1..MaxEvents :
          /\ handlers[e].pc = "request"
          /\ handlers[e].cur = o
          /\ handlers'[e] # handlers[e]
    /\ diag[ObjKey(o)] = NoDiag
    /\ diag'[ObjKey(o)] = objStatus'[o]

\* the tracked o reaches a non-terminal status in this step: with its first
\* answer, or coming from a different status
ReachesNonTerminal(o) ==
    /\ IsTracked(o)
    /\ IsTracked(o)'
    /\ objStatus'[o] \in NonTerminal
    /\ FirstAnswer(o) \/ objStatus'[o] # objStatus[o]

\* C31: when a tracked dependency reaches a non-terminal status for the first
\* time since it is tracked or since its status was a different one, a
\* notification for that status is shown.
C31_NewStatusIsNotified ==
    [][\A o \in Objs : ReachesNonTerminal(o) => ntShown'[o] = 1]_vars

----------------------------------------------------------------------------
(* Claims about HeartbeatService *)

\* an alert is handled in this step
AlertHandled == lastAlert' # lastAlert \/ surfaced' # surfaced

\* C32: over all heartbeat responses, overlapping or not, a denied package
\* name is listed in at most one alert that is shown; the names of an alert
\* that were not notified before are shown, and an alert whose names were all
\* notified shows nothing.
C32_DeniedNameSurfacedOnce ==
    /\ [](\A n \in PkgNames :
             /\ surfaced[n] <= 1
             /\ n \in notifiedPackages <=> surfaced[n] = 1)
    /\ [][AlertHandled =>
             /\ lastAlert'.shown = lastAlert'.packages \ notifiedPackages
             /\ \A n \in PkgNames :
                   surfaced'[n] = surfaced[n] +
                       (IF n \in lastAlert'.shown THEN 1 ELSE 0)]_vars
    /\ [][\A b \in 1..MaxBeats :
             (beats'[b].pc = "modal" /\ beats[b].pc # "modal") =>
                 /\ beats'[b].new # {}
                 /\ beats'[b].new \cap notifiedPackages = {}]_vars

\* two overlapping handlers each show an alert, one for x and one for y
C32_Witness ==
    /\ beats[1].pc = "modal"
    /\ beats[2].pc = "modal"
    /\ beats[1].new \cup beats[2].new = PkgNames
    /\ lastAlert.packages = PkgNames
    /\ lastAlert.shown # PkgNames

\* client.heartbeat() is called in this step
HeartbeatSent ==
    \E b \in 1..MaxBeats : beats[b].pc = "config" /\ beats'[b].pc = "wait"

\* C39: at most one interval timer is live, and it is the one the service
\* holds; while the service is stopped (stop() has returned and start() has
\* not been called since) no timer is live and no heartbeat is sent.
C39_OneTimerNoneAfterStop ==
    /\ [](/\ Cardinality(hTimers) <= 1
          /\ hTimers \subseteq {interval}
          /\ ~isRunning => hTimers = {})
    /\ [][HeartbeatSent => isRunning]_vars

----------------------------------------------------------------------------
(* Claims about the notified set and removals *)

\* the removal of the dependency tracked under key k is processed in this step
RemovalProcessed(k) == k \in removedKeys' /\ k \notin removedKeys

\* the dependency of key k, removed before, is added and tracked again in
\* this step
AddedAgain(k) ==
    /\ k \in removedKeys
    /\ \E e \in 1..MaxEvents :
          /\ handlers'[e].pc = "request"
          /\ handlers[e].pc # "request"
          /\ ObjKey(handlers'[e].cur) = k

\* C33: removing a tracked dependency clears its notified set: its name is
\* not in the set when the removal has been processed, nor when the same
\* dependency is added again, so that its first pending, scanning or not_found
\* response is notified again.
C33_RemovalClearsNotified ==
    [][\A k \in Keys :
          /\ RemovalProcessed(k) => k[2] \notin pendingNotifications'
          /\ AddedAgain(k) => k[2] \notin pendingNotifications]_vars

----------------------------------------------------------------------------
(* Claims about the diff of a manifest *)

\* the names a well-formed manifest declares
DeclaredNames(kind, npm, mvn) ==
    IF kind = "npm" THEN npm.dependencies \cup npm.devDependencies
    ELSE SeqRange(mvn)

PreviousNames == DeclaredNames(pKind, npmPrev, mvnPrev)
CurrentNames == DeclaredNames(pKind, npmCur, mvnCur)

\* C34: for well-formed contents the added names are exactly the names of
\* current that previous lacks, the removed names are exactly the tracked
\* names that current lacks, and a name of both previous and current is in
\* neither set.
C34_DiffIsExact ==
    /\ pPc \in {"new", "done"} =>
          /\ SeqRange(newDeps) = CurrentNames \ PreviousNames
          /\ SeqRange(newDeps) \cap (PreviousNames \cap CurrentNames) = {}
    /\ pPc = "done" =>
          /\ pRemoved = pTracked \ CurrentNames
          /\ pRemoved \cap (PreviousNames \cap CurrentNames) = {}
          /\ pRemoved \cap SeqRange(newDeps) = {}

\* package.json: a is kept and stays tracked, b is added
C34_Witness ==
    /\ pPc = "done"
    /\ pKind = "npm"
    /\ npmPrev = [dependencies |-> {"a"}, devDependencies |-> {}]
    /\ npmCur = [dependencies |-> {"a"}, devDependencies |-> {"b"}]
    /\ newDeps = <<"b">>
    /\ pTracked = {"a", "b"}
    /\ pRemoved = {}

\* C38: MavenDependencyParser.parseNewDependencies returns each new
\* groupId:artifactId at most once.
C38_MavenNewNamesOnce ==
    (pKind = "maven" /\ pPc \in {"new", "done"}) =>
        \A i, j \in 1..Len(newDeps) : newDeps[i] = newDeps[j] => i = j

----------------------------------------------------------------------------
(* Claims about the deletion of a manifest *)

\* no handleFileChange call for manifest m is between its readFile and its end
NoHandlerRuns(m) ==
    \A e \in 1..MaxEvents :
        handlers[e].uri = m => handlers[e].pc \in {"idle", "done"}

\* C35: after the deletion event of a manifest, fileCache and statusCache
\* hold nothing for its path, also when a change event of the manifest was
\* being processed when the deletion arrived and has completed since.
C35_DeletedManifestLeavesNoEntry ==
    \A m \in Manifests :
        (disk[m] = Absent /\ mapGen[m] > 0 /\ NoHandlerRuns(m))
        => (fileCache[m] = {} /\ statusCache[m] = <<>>)

----------------------------------------------------------------------------
(* Claims about the bootstrap marker *)

\* the list holds no id twice
StoredOnce(list) ==
    \A i, j \in 1..Len(list) : list[i] = list[j] => i = j

\* a step of the scanNow command up to its await: resetBootstrap has run
ResetStep == nScans' # nScans

\* C36: over any sequence of successful bootstraps and resets,
\* isBootstrapCompleted of a workspace is true exactly when the last of them
\* for that workspace was a successful bootstrap; the id is stored once, a
\* reset of an unmarked workspace changes nothing, and no step changes the
\* marker of a workspace other than the open one.
C36_MarkerFollowsLastOperation ==
    /\ [](\A w \in Workspaces :
             isBootstrapCompleted(completed, w) <=> okSinceReset[w])
    /\ []StoredOnce(completed)
    /\ [][(ResetStep /\ ~isBootstrapCompleted(completed, workspace))
             => completed' = completed]_vars
    /\ [][ResetStep => ~isBootstrapCompleted(completed', workspace)]_vars
    /\ [][\A w \in Workspaces :
             w # workspace =>
                 (isBootstrapCompleted(completed', w)
                     <=> isBootstrapCompleted(completed, w))]_vars

\* w1 and w2 were marked, w1 was reset by scanNow and marked again by its run
C36_Witness ==
    /\ completed = <<"w2", "w1">>
    /\ nScans > 0
    /\ workspace = "w1"

----------------------------------------------------------------------------
(* Claims about the DiagnosticsProvider *)

\* the entries of name n in a list
EntriesOf(list, n) == {i \in 1..Len(list) : list[i].name = n}

\* the entries of the provider and of the collection for key <<m, n>>, as
\* sequences in list order
Held(provider, collection, m, n) ==
    <<SelectSeq(provider[m].list, LAMBDA d : d.name = n),
      SelectSeq(collection[m].list, LAMBDA d : d.name = n)>>

HeldFor(m, n) == Held(fileDiagnostics, diagnosticCollection, m, n)

\* what the last call was to change: a key, a file, or everything
Touches(op, m, n) ==
    \/ op.op = "clearAll"
    \/ op.op = "clearFile" /\ op.uri = m
    \/ op.op \in {"add", "remove"} /\ op.uri = m /\ op.name = n

\* C37: after any sequence of addDiagnostic, removeDiagnostic, clearFile and
\* clearAll the provider and the collection hold at most one entry per
\* (manifest, name), that entry is the one addDiagnostic got last for the
\* key, and a call leaves the entries of the keys it is not about unchanged.
C37_OneEntryPerKey ==
    /\ [](\A m \in Manifests, n \in DepNames :
             /\ Cardinality(EntriesOf(fileDiagnostics[m].list, n)) <= 1
             /\ Cardinality(EntriesOf(diagnosticCollection[m].list, n)) <= 1
             /\ \A i \in EntriesOf(fileDiagnostics[m].list, n) :
                    fileDiagnostics[m].list[i] = lastAdded[<<m, n>>]
             /\ \A i \in EntriesOf(diagnosticCollection[m].list, n) :
                    diagnosticCollection[m].list[i]
                        = vsDiagnostic(lastAdded[<<m, n>>]))
    /\ [](\A m \in Manifests :
             diagnosticCollection[m].list
                 = updateDiagnostics(fileDiagnostics[m].list).list)
    /\ [][nDiagOps' # nDiagOps =>
             \A m \in Manifests, n \in DepNames :
                 ~Touches(dOp', m, n) => HeldFor(m, n)' = HeldFor(m, n)]_vars
    /\ [][(nDiagOps' # nDiagOps /\ dOp'.op = "add") =>
             Held(fileDiagnostics', diagnosticCollection', dOp'.uri, dOp'.name)
                 = <<(<<lastAdded'[<<dOp'.uri, dOp'.name>>]>>),
                     (<<vsDiagnostic(lastAdded'[<<dOp'.uri, dOp'.name>>])>>)>>]_vars
    /\ [][(nDiagOps' # nDiagOps /\ dOp'.op = "remove") =>
             Held(fileDiagnostics', diagnosticCollection', dOp'.uri, dOp'.name)
                 = <<(<<>>), (<<>>)>>]_vars

\* a of m1 was added as pending and again as denied behind b, then b was
\* removed: the one entry of a is the denied one, m2 keeps its entry
C37_Witness ==
    /\ fileDiagnostics["m1"].list = <<[name |-> "a", status |-> "denied"]>>
    /\ lastAdded[<<"m1", "b">>] # NeverAdded
    /\ fileDiagnostics["m2"].list # <<>>
    /\ dOp.op = "remove"

----------------------------------------------------------------------------
(* Claims about same-named dependencies of two manifests *)

\* the tracked objects of other manifests that have the name of o
Namesakes(o) ==
    {p \in TrackedObjs : ObjName(p) = ObjName(o) /\ ObjKey(p)[1] # ObjKey(o)[1]}

\* o gets its first answer, a non-terminal one, and nothing was notified for
\* its key before, while a namesake in another manifest has been notified
FirstAnswerAfterNamesake(o) ==
    /\ IsTracked(o)'
    /\ FirstAnswer(o)
    /\ objStatus'[o] \in NonTerminal
    /\ \A p \in TrackedObjs : ObjKey(p) = ObjKey(o) => ntShown[p] = 0
    /\ \E p \in Namesakes(o) : ntShown[p] = 1

\* the poll of a namesake of o is stopped while the poll of o goes on
NamesakeStopped(o) ==
    /\ IsTracked(o) /\ IsTracked(o)'
    /\ objStatus[o] \in NonTerminal /\ objStatus'[o] = objStatus[o]
    /\ pollingIntervals[ObjKey(o)] = o /\ pollingIntervals'[ObjKey(o)] = o
    /\ \E p \in Namesakes(o) :
          /\ pollingIntervals[ObjKey(p)] = p
          /\ pollingIntervals'[ObjKey(p)] = NoObj

\* C40: a non-terminal notification shown for a dependency of one manifest
\* does not suppress the first notification of the same-named dependency of
\* another manifest, and stopping the poll of the one does not take the
\* other out of the notified set.
C40_DedupPerManifest ==
    /\ [][\A o \in Objs : FirstAnswerAfterNamesake(o) => ntShown'[o] = 1]_vars
    /\ [][\A o \in Objs :
             (NamesakeStopped(o) /\ ObjName(o) \in pendingNotifications)
             => ObjName(o) \in pendingNotifications']_vars

====
